---- MODULE Spec2Model ----
(***************************************************************************)
(* Permit normalization and geocoding cache of the Permit Intelligence     *)
(* Platform (src/src/processors/prepare_permits.py).                       *)
(*                                                                         *)
(* Python values are tagged records: Str(s) holds a string as a sequence   *)
(* of one-character strings, IntV(n) an integer, FloatV(m, e) the decimal  *)
(* m / 10^e, List(xs) a list, Null is None.  A dict is a function whose    *)
(* DOMAIN is its key set.                                                  *)
(***************************************************************************)
EXTENDS Integers, Sequences, FiniteSets, TLC

\* ------------------------------------------------------------------------
\* Python values
\* ------------------------------------------------------------------------
Null == [t |-> "null"]
NaN == [t |-> "nan"]
Str(s) == [t |-> "str", s |-> s]
IntV(n) == [t |-> "int", n |-> n]
FloatV(m, e) == [t |-> "float", m |-> m, e |-> e]
List(xs) == [t |-> "list", xs |-> xs]
Dict(d) == [t |-> "dict", d |-> d]

\* bool(v) as Python evaluates it in `if v`, `not v`, `a or b`
Truthy(v) ==
    CASE v.t = "null" -> FALSE
      [] v.t = "str" -> Len(v.s) > 0
      [] v.t = "int" -> v.n # 0
      [] v.t = "float" -> v.m # 0
      [] v.t = "list" -> Len(v.xs) > 0
      [] v.t = "dict" -> DOMAIN v.d # {}
      [] OTHER -> TRUE

\* ------------------------------------------------------------------------
\* Characters
\* ------------------------------------------------------------------------
UpperSeq == <<"A","B","C","D","E","F","G","H","I","J","K","L","M",
              "N","O","P","Q","R","S","T","U","V","W","X","Y","Z">>
LowerSeq == <<"a","b","c","d","e","f","g","h","i","j","k","l","m",
              "n","o","p","q","r","s","t","u","v","w","x","y","z">>
DigitSeq == <<"0","1","2","3","4","5","6","7","8","9">>

Range(f) == {f[k] : k \in DOMAIN f}

UpperLetters == Range(UpperSeq)
LowerLetters == Range(LowerSeq)
Digits == Range(DigitSeq)
\* U+FB06, LATIN SMALL LIGATURE ST: one lowercase letter outside ASCII whose
\* uppercase is the two letters ST and whose titlecase is St
Ligature == "U+FB06"
\* \w of the re module
WordChars == UpperLetters \cup LowerLetters \cup Digits \cup {"_", Ligature}
\* \s of the re module, the characters str.strip() removes
Whitespace == {" ", "\t", "\n"}

IsUpper(c) == c \in UpperLetters
IsLower(c) == c \in LowerLetters
IsLetter(c) == c \in UpperLetters \/ c \in LowerLetters \/ c = Ligature
IsDigit(c) == c \in Digits
IsWordChar(c) == c \in WordChars
IsSpace(c) == c \in Whitespace

UpperOf == [c \in LowerLetters |-> UpperSeq[CHOOSE k \in 1..26 : LowerSeq[k] = c]]
LowerOf == [c \in UpperLetters |-> LowerSeq[CHOOSE k \in 1..26 : UpperSeq[k] = c]]
DigitValOf == [c \in Digits |-> (CHOOSE k \in 1..10 : DigitSeq[k] = c) - 1]

ToUpper(c) == IF c \in LowerLetters THEN UpperOf[c] ELSE c
ToLower(c) == IF c \in UpperLetters THEN LowerOf[c] ELSE c
DigitVal(c) == DigitValOf[c]

\* ------------------------------------------------------------------------
\* str methods
\* ------------------------------------------------------------------------
\* c.upper() and c.title() of one character
UpperChars(c) == IF c = Ligature THEN <<"S", "T">> ELSE <<ToUpper(c)>>
TitleChars(c) == IF c = Ligature THEN <<"S", "t">> ELSE <<ToUpper(c)>>

\* s.upper()
RECURSIVE Upper(_)
Upper(s) == IF Len(s) = 0 THEN <<>> ELSE UpperChars(s[1]) \o Upper(Tail(s))

\* s.title(): a letter that follows a letter is lowercased, any other
\* letter is titlecased
RECURSIVE TitleFrom(_, _)
TitleFrom(s, k) ==
    IF k > Len(s) THEN <<>>
    ELSE (IF k > 1 /\ IsLetter(s[k-1]) THEN <<ToLower(s[k])>>
          ELSE TitleChars(s[k])) \o TitleFrom(s, k + 1)
Title(s) == TitleFrom(s, 1)

RECURSIVE LStrip(_, _)
LStrip(s, chars) ==
    IF Len(s) > 0 /\ s[1] \in chars THEN LStrip(Tail(s), chars) ELSE s

RECURSIVE RStrip(_, _)
RStrip(s, chars) ==
    IF Len(s) > 0 /\ s[Len(s)] \in chars
    THEN RStrip(SubSeq(s, 1, Len(s) - 1), chars) ELSE s

\* s.strip(chars)
Strip(s, chars) == RStrip(LStrip(s, chars), chars)
\* s.strip()
StripWs(s) == Strip(s, Whitespace)

\* s.replace(c, '')
RemoveChar(s, c) == SelectSeq(s, LAMBDA x : x # c)

\* re.sub(r'\s+', ' ', s)
RECURSIVE CollapseWs(_)
CollapseWs(s) ==
    IF Len(s) = 0 THEN <<>>
    ELSE IF IsSpace(s[1])
         THEN <<" ">> \o CollapseWs(LStrip(s, Whitespace))
         ELSE <<s[1]>> \o CollapseWs(Tail(s))

\* does the pattern \bword\b match s at position p (word is a run of
\* letters); ic is flags=re.IGNORECASE
MatchesWordAt(s, p, word, ic) ==
    /\ p + Len(word) - 1 <= Len(s)
    /\ \A k \in 1..Len(word) :
          IF ic THEN ToUpper(s[p + k - 1]) = ToUpper(word[k])
                ELSE s[p + k - 1] = word[k]
    /\ (p = 1 \/ ~IsWordChar(s[p - 1]))
    /\ (p + Len(word) - 1 = Len(s) \/ ~IsWordChar(s[p + Len(word)]))

\* re.sub(r'\bword\b', repl, s): leftmost non-overlapping matches
RECURSIVE SubWordFrom(_, _, _, _, _)
SubWordFrom(s, p, word, repl, ic) ==
    IF p > Len(s) THEN <<>>
    ELSE IF MatchesWordAt(s, p, word, ic)
         THEN repl \o SubWordFrom(s, p + Len(word), word, repl, ic)
         ELSE <<s[p]>> \o SubWordFrom(s, p + 1, word, repl, ic)

SubWord(s, word, repl, ic) == SubWordFrom(s, 1, word, repl, ic)

\* str(n) of a non-negative or negative int
RECURSIVE NatToStr(_)
NatToStr(n) ==
    IF n < 10 THEN <<DigitSeq[n + 1]>>
    ELSE NatToStr(n \div 10) \o <<DigitSeq[(n % 10) + 1]>>

IntToStr(n) == IF n < 0 THEN <<"-">> \o NatToStr(0 - n) ELSE NatToStr(n)

\* str(v) for the value kinds a raw permit field holds
ToStr(v) ==
    CASE v.t = "str" -> v.s
      [] v.t = "int" -> IntToStr(v.n)
      [] v.t = "null" -> <<"N","o","n","e">>

\* ------------------------------------------------------------------------
\* Address cleanup
\* ------------------------------------------------------------------------
\* the abbreviation fixes of clean_address_for_cache, in order: the pattern
\* is the title-cased word and the replacement is the word itself, except
\* for Fl
CacheAbbreviations ==
    << <<<<"F","l">>, <<"F","L">>>>,
       <<<<"R","d">>, <<"R","d">>>>,
       <<<<"S","t">>, <<"S","t">>>>,
       <<<<"A","v","e">>, <<"A","v","e">>>>,
       <<<<"D","r">>, <<"D","r">>>>,
       <<<<"L","n">>, <<"L","n">>>>,
       <<<<"C","t">>, <<"C","t">>>>,
       <<<<"P","l">>, <<"P","l">>>>,
       <<<<"B","l","v","d">>, <<"B","l","v","d">>>> >>

\* directional_map of clean_address, in dict order
DirectionalMap ==
    << <<<<"N","O","R","T","H">>, <<"N">>>>,
       <<<<"S","O","U","T","H">>, <<"S">>>>,
       <<<<"E","A","S","T">>, <<"E">>>>,
       <<<<"W","E","S","T">>, <<"W">>>>,
       <<<<"N","O","R","T","H","E","A","S","T">>, <<"N","E">>>>,
       <<<<"N","O","R","T","H","W","E","S","T">>, <<"N","W">>>>,
       <<<<"S","O","U","T","H","E","A","S","T">>, <<"S","E">>>>,
       <<<<"S","O","U","T","H","W","E","S","T">>, <<"S","W">>>> >>

\* street_types of clean_address, in dict order
StreetTypes ==
    << <<<<"S","T","R","E","E","T">>, <<"S","T">>>>,
       <<<<"A","V","E","N","U","E">>, <<"A","V","E">>>>,
       <<<<"B","O","U","L","E","V","A","R","D">>, <<"B","L","V","D">>>>,
       <<<<"D","R","I","V","E">>, <<"D","R">>>>,
       <<<<"R","O","A","D">>, <<"R","D">>>>,
       <<<<"L","A","N","E">>, <<"L","N">>>>,
       <<<<"C","O","U","R","T">>, <<"C","T">>>>,
       <<<<"P","L","A","C","E">>, <<"P","L">>>> >>

\* the loop `for full, abbrev in table.items(): s = re.sub(...)`
RECURSIVE SubAll(_, _, _, _)
SubAll(s, table, k, ic) ==
    IF k > Len(table) THEN s
    ELSE SubAll(SubWord(s, table[k][1], table[k][2], ic), table, k + 1, ic)

\* clean_address_for_cache without the title() step
clean_address_for_cache_NoTitle(address) ==
    IF Len(address) = 0 THEN <<>>
    ELSE SubAll(CollapseWs(StripWs(address)), CacheAbbreviations, 1, FALSE)

\* PermitProcessor.clean_address_for_cache, on the characters of a str
clean_address_for_cache(address) ==
    IF Len(address) = 0 THEN <<>>
    ELSE SubAll(Title(CollapseWs(StripWs(address))), CacheAbbreviations, 1, FALSE)

\* PermitProcessor.clean_address, on a Python value (str(address) is taken)
clean_address(address) ==
    IF ~Truthy(address) THEN <<>>
    ELSE Upper(SubAll(SubAll(CollapseWs(StripWs(ToStr(address))),
                             DirectionalMap, 1, TRUE),
                      StreetTypes, 1, TRUE))

\* ------------------------------------------------------------------------
\* float(str)
\* ------------------------------------------------------------------------
ValueError == [t |-> "error", exc |-> "ValueError"]
Inf(neg) == [t |-> "inf", neg |-> neg]

Lower(s) == [k \in 1..Len(s) |-> ToLower(s[k])]

RECURSIVE Pow10(_)
Pow10(n) == IF n = 0 THEN 1 ELSE 10 * Pow10(n - 1)

RECURSIVE DigitsVal(_)
DigitsVal(d) ==
    IF Len(d) = 0 THEN 0
    ELSE 10 * DigitsVal(SubSeq(d, 1, Len(d) - 1)) + DigitVal(d[Len(d)])

\* a digit run of a numeric literal: digits, single underscores between them
ValidDigits(d) ==
    /\ Len(d) > 0
    /\ \A k \in 1..Len(d) : IsDigit(d[k]) \/ d[k] = "_"
    /\ IsDigit(d[1]) /\ IsDigit(d[Len(d)])
    /\ \A k \in 1..(Len(d) - 1) : ~(d[k] = "_" /\ d[k + 1] = "_")

\* the decimal m / 10^e without trailing fraction zeros (0.0 == -0.0)
RECURSIVE NormFloat(_, _)
NormFloat(m, e) ==
    IF e > 0 /\ m % 10 = 0 THEN NormFloat(m \div 10, e - 1) ELSE FloatV(m, e)

Positions(s, chars) == {k \in 1..Len(s) : s[k] \in chars}

\* float(s) for a str s that has no surrounding whitespace: the value, or
\* ValueError.  Decimal values are exact here (no binary rounding, no
\* overflow to inf).
ParseFloat(s) ==
    LET signed == Len(s) > 0 /\ s[1] \in {"+", "-"}
        neg == Len(s) > 0 /\ s[1] = "-"
        body == IF signed THEN Tail(s) ELSE s
        epos == Positions(body, {"e", "E"})
        ep == IF epos = {} THEN Len(body) + 1 ELSE CHOOSE k \in epos : TRUE
        mant == SubSeq(body, 1, ep - 1)
        expo == SubSeq(body, ep + 1, Len(body))
        xsigned == Len(expo) > 0 /\ expo[1] \in {"+", "-"}
        xdigits == IF xsigned THEN Tail(expo) ELSE expo
        dpos == Positions(mant, {"."})
        dp == IF dpos = {} THEN Len(mant) + 1 ELSE CHOOSE k \in dpos : TRUE
        ip == SubSeq(mant, 1, dp - 1)
        fp == SubSeq(mant, dp + 1, Len(mant))
        fd == RemoveChar(fp, "_")
        m == DigitsVal(RemoveChar(ip, "_") \o fd)
        x == IF epos = {} THEN 0
             ELSE IF Len(expo) > 0 /\ expo[1] = "-"
                  THEN 0 - DigitsVal(RemoveChar(xdigits, "_"))
                  ELSE DigitsVal(RemoveChar(xdigits, "_"))
        shift == x - Len(fd)
        sm == IF neg THEN 0 - m ELSE m
    IN  IF Lower(body) = <<"n","a","n">> THEN NaN
        ELSE IF Lower(body) \in {<<"i","n","f">>,
                                 <<"i","n","f","i","n","i","t","y">>}
        THEN Inf(neg)
        ELSE IF \/ Cardinality(epos) > 1
                \/ Cardinality(dpos) > 1
                \/ (epos # {} /\ ~ValidDigits(xdigits))
                \/ (Len(ip) = 0 /\ Len(fp) = 0)
                \/ (Len(ip) > 0 /\ ~ValidDigits(ip))
                \/ (Len(fp) > 0 /\ ~ValidDigits(fp))
        THEN ValueError
        ELSE IF shift >= 0 THEN FloatV(sm * Pow10(shift), 0)
        ELSE NormFloat(sm, 0 - shift)

\* permit_value_of that leaves the thousands separators in
permit_value_of_KeepCommas(v) ==
    LET value_str == StripWs(RemoveChar(ToStr(v), "$"))
        parsed == IF Len(value_str) > 0 THEN ParseFloat(value_str) ELSE Null
    IN  IF parsed = ValueError THEN Null ELSE parsed

\* the permit value cleanup of normalize_permit:
\*   value_str = str(v).replace('$', '').replace(',', '').strip()
\*   float(value_str) if value_str else None; None on ValueError
permit_value_of(v) ==
    LET value_str == StripWs(RemoveChar(RemoveChar(ToStr(v), "$"), ","))
        parsed == IF Len(value_str) > 0 THEN ParseFloat(value_str) ELSE Null
    IN  IF parsed = ValueError THEN Null ELSE parsed

\* ------------------------------------------------------------------------
\* dicts
\* ------------------------------------------------------------------------
EmptyDict == [k \in {} |-> Null]
\* d[k] = v
Put(d, k, v) == [x \in (DOMAIN d) \cup {k} |-> IF x = k THEN v ELSE d[x]]
\* d.get(k, default)
Get(d, k, default) == IF k \in DOMAIN d THEN d[k] ELSE default
\* hash(v) succeeds: a list or a dict cannot be a dict key
Hashable(v) == v.t \notin {"list", "dict"}

\* ------------------------------------------------------------------------
\* The canonical record and the per-county field tables
\* ------------------------------------------------------------------------
MiamiDade == <<"m","i","a","m","i","-","d","a","d","e">>
Hillsborough == <<"h","i","l","l","s","b","o","r","o","u","g","h">>
Unknown == <<"u","n","k","n","o","w","n">>
UNKNOWN == <<"U","N","K","N","O","W","N">>

\* the clock readings datetime.now().strftime('%m/%d/%Y') and
\* datetime.now().isoformat() of the processing day
ProcessingDate == <<"1","1","/","0","4","/","2","0","2","6">>
ProcessingTimestamp == <<"2","0","2","6","-","1","1","-","0","4","T","1","2">>

\* NormalizedPermit: the fields without a default, and all fields
RequiredFields ==
    {"permit_id", "source_county", "permit_type", "description", "address",
     "city", "zipcode"}
OptionalFields ==
    {"coordinates", "applicant_name", "contractor_name", "permit_value",
     "issue_date", "expiration_date", "status", "last_updated"}
PermitFields == RequiredFields \cup OptionalFields

\* self.field_mappings
field_mappings ==
    [c \in {Str(MiamiDade), Str(Hillsborough)} |->
        IF c = Str(MiamiDade)
        THEN [permit_id |-> "FOLIO", permit_type |-> "PERMIT_TYPE",
              description |-> "DESC1", address |-> "ADDRESS",
              city |-> "CITY", zipcode |-> "ZIP",
              applicant_name |-> "APPLICANT",
              contractor_name |-> "CONTRACTOR", permit_value |-> "JOB_VAL",
              issue_date |-> "ISSUDATE", expiration_date |-> "EXPRDATE",
              status |-> "STATUS"]
        ELSE [permit_id |-> "Record Number", permit_type |-> "Record Type",
              description |-> "Description", address |-> "Address",
              city |-> "City", zipcode |-> "Zip",
              applicant_name |-> "Applicant Name",
              contractor_name |-> "Contractor Name",
              permit_value |-> "Estimated Value", issue_date |-> "Date",
              expiration_date |-> "Expiration Date", status |-> "Status"]]

\* f'DESC{i}' for i in range(1, 11)
DescFields ==
    <<"DESC1", "DESC2", "DESC3", "DESC4", "DESC5", "DESC6", "DESC7", "DESC8",
      "DESC9", "DESC10">>

\* required_defaults without the zipcode entry
required_defaults_NoZipcode ==
    [permit_id |-> Str(UNKNOWN), permit_type |-> Str(UNKNOWN),
     description |-> Str(<<>>), address |-> Str(<<>>), city |-> Str(<<>>)]

\* required_defaults of normalize_permit
required_defaults ==
    [permit_id |-> Str(UNKNOWN), permit_type |-> Str(UNKNOWN),
     description |-> Str(<<>>), address |-> Str(<<>>), city |-> Str(<<>>),
     zipcode |-> Str(<<>>)]

\* NormalizedPermit(**data) followed by asdict: TypeError when a field
\* without a default is not given, otherwise every field, the ones not given
\* at their default (None; last_updated is stamped by __post_init__)
NormalizedPermit(data) ==
    IF ~(RequiredFields \subseteq DOMAIN data)
    THEN [t |-> "error", exc |-> "TypeError"]
    ELSE Dict([f \in PermitFields |->
                 IF f \in DOMAIN data THEN data[f]
                 ELSE IF f = "last_updated" THEN Str(ProcessingTimestamp)
                 ELSE Null])

\* ------------------------------------------------------------------------
\* Geocoding with the cache
\* ------------------------------------------------------------------------
\* {"lat": lat, "lng": lng}
Coord(lat, lng) == Dict([lat |-> lat, lng |-> lng])
Miss == [t |-> "miss"]

\* the answers of the geocoding service to requests.get / raise_for_status /
\* response.json(): a first result with a location, an empty result list,
\* or an exception (ConnectionError, Timeout: the request fails; HTTPError:
\* raise_for_status on an error status; JSONDecodeError: the body is no
\* JSON; KeyError: the first result has no geometry or location)
ServiceExceptions ==
    {"ConnectionError", "Timeout", "HTTPError", "JSONDecodeError", "KeyError"}
Results(lat, lng) == [kind |-> "results", lat |-> lat, lng |-> lng]
EmptyResults == [kind |-> "empty"]
Raises(exc) == [kind |-> "raise", exc |-> exc]

\* the classes derived from Exception that occur here
ExceptionClasses ==
    ServiceExceptions \cup {"TypeError", "AttributeError", "OSError"}

\* GeocodeCatches as `except requests.ConnectionError, Timeout, HTTPError`
GeocodeCatches_RequestErrorsOnly(exc) ==
    exc \in {"ConnectionError", "Timeout", "HTTPError"}

\* `except Exception` of geocode_address
GeocodeCatches(exc) == exc \in ExceptionClasses

\* full_address of geocode_address
FullAddress(address, city, zipcode) ==
    IF Truthy(city) \/ Truthy(zipcode)
    THEN Strip(address \o <<",", " ">> \o ToStr(city)
                       \o <<",", " ", "F", "L", " ">> \o ToStr(zipcode),
               {",", " "})
    ELSE StripWs(address)

\* IsCachedPair of a cache check that never finds an entry
IsCachedPair_Never(cache, key) == FALSE

\* `cached_result and len(cached_result) == 2` for the entry under key
IsCachedPair(cache, key) ==
    /\ key \in DOMAIN cache
    /\ Truthy(cache[key])
    /\ cache[key].t = "list" /\ Len(cache[key].xs) = 2

\* CacheLookup that reads the cache under full_address only
CacheLookup_RawKeyOnly(cache, full_address, normalized_address) ==
    IF IsCachedPair(cache, full_address)
    THEN Coord(cache[full_address].xs[1], cache[full_address].xs[2])
    ELSE Miss

\* the cache check of geocode_address over cache_keys =
\* [full_address, normalized_address]
CacheLookup(cache, full_address, normalized_address) ==
    IF IsCachedPair(cache, full_address)
    THEN Coord(cache[full_address].xs[1], cache[full_address].xs[2])
    ELSE IF IsCachedPair(cache, normalized_address)
    THEN Coord(cache[normalized_address].xs[1], cache[normalized_address].xs[2])
    ELSE Miss

\* the exception raised inside the try block of save_geocoding_cache when
\* the file write ends as io ("ok", or open() or the write raising)
SaveException(io) == IF io = "ok" THEN "none" ELSE "OSError"

\* SaveCatches of a save_geocoding_cache without the try block
SaveCatches_Nothing(exc) == FALSE

\* `except Exception` of save_geocoding_cache
SaveCatches(exc) == exc \in ExceptionClasses

\* the exception that leaves save_geocoding_cache
SaveRaises(io) ==
    IF SaveException(io) # "none" /\ ~SaveCatches(SaveException(io))
    THEN SaveException(io) ELSE "none"

\* the end of the try block of geocode_address after the cache write: the
\* flush, then the return of coords, or the except branch when the flush
\* raised
Flushed(coords, cache, io) ==
    IF SaveRaises(io) = "none"
    THEN [coords |-> coords, cache |-> cache, save |-> TRUE, exc |-> "none"]
    ELSE [coords |-> Null, cache |-> cache, save |-> TRUE,
          exc |-> IF GeocodeCatches(SaveRaises(io)) THEN "none"
                  ELSE SaveRaises(io)]

\* ServiceRequests of a try block that asks once more after an exception
ServiceRequests_RetryOnError(resp) == IF resp.kind = "raise" THEN 2 ELSE 1

\* the requests.get calls the try block of geocode_address makes when the
\* service answers resp: the one of line 147; the except branch returns
ServiceRequests(resp) == 1

\* LiveLookup without the flush after an empty result
LiveLookup_NoSaveOnEmpty(cache, full_address, resp, io) ==
    IF resp.kind = "results"
    THEN Flushed(Coord(resp.lat, resp.lng),
                 Put(cache, full_address, List(<<resp.lat, resp.lng>>)), io)
    ELSE IF resp.kind = "empty"
    THEN [coords |-> Null, cache |-> Put(cache, full_address, Null),
          save |-> FALSE, exc |-> "none"]
    ELSE [coords |-> Null, cache |-> cache, save |-> FALSE, exc |-> "none"]

\* the try block of geocode_address: the request, the cache write and the
\* flush, whose file write ends as io; exc is the exception that leaves
\* geocode_address
LiveLookup(cache, full_address, resp, io) ==
    IF resp.kind = "results"
    THEN Flushed(Coord(resp.lat, resp.lng),
                 Put(cache, full_address, List(<<resp.lat, resp.lng>>)), io)
    ELSE IF resp.kind = "empty"
    THEN Flushed(Null, Put(cache, full_address, Null), io)
    ELSE [coords |-> Null, cache |-> cache, save |-> FALSE,
          exc |-> IF GeocodeCatches(resp.exc) THEN "none" ELSE resp.exc]

\* CanCallService without the check of the key
CanCallService_Always(google_api_key) == TRUE

\* `if not self.google_api_key: return None` ahead of the request
CanCallService(google_api_key) == google_api_key

\* PermitProcessor.geocode_address for the keys full_address and
\* normalized_address it has built, with the service answering resp if it
\* is asked and the file write of a flush ending as io: the returned
\* coordinates, the cache afterwards, whether the service was called, whether
\* save_geocoding_cache was called, and the exception raised ("none")
geocode_keys(enable, api_key, cache, full_address, normalized_address, resp, io) ==
    LET cached == CacheLookup(cache, full_address, normalized_address)
        live == LiveLookup(cache, full_address, resp, io)
        quiet == [coords |-> Null, cache |-> cache, called |-> FALSE,
                  save |-> FALSE, exc |-> "none"]
    IN  IF ~enable THEN quiet
        ELSE IF cached # Miss THEN [quiet EXCEPT !.coords = cached]
        ELSE IF ~CanCallService(api_key) THEN quiet
        ELSE [coords |-> live.coords, cache |-> live.cache, called |-> TRUE,
              save |-> live.save, exc |-> live.exc]

\* PermitProcessor.geocode_address(address, city, zipcode)
geocode_address(enable, api_key, cache, address, city, zipcode, resp, io) ==
    geocode_keys(enable, api_key, cache, FullAddress(address, city, zipcode),
                 clean_address_for_cache(FullAddress(address, city, zipcode)),
                 resp, io)

\* ------------------------------------------------------------------------
\* normalize_permit
\* ------------------------------------------------------------------------
\* the exception of the first two statements of normalize_permit:
\* raw_permit.get on a value that is no dict, field_mappings.get on an
\* unhashable county
MappingError(raw_permit) ==
    IF raw_permit.t # "dict" THEN "AttributeError"
    ELSE IF ~Hashable(Get(raw_permit.d, "source_county", Str(Unknown)))
    THEN "TypeError"
    ELSE "none"

\* county and mapping of normalize_permit
CountyOf(raw) == Get(raw, "source_county", Str(Unknown))
MappingOf(county) == Get(field_mappings, county, EmptyDict)

\* the field copy loop: source_county, and every mapped field whose source
\* value is not None
MapFields(raw) ==
    LET mapping == MappingOf(CountyOf(raw))
        present == {f \in DOMAIN mapping : Get(raw, mapping[f], Null) # Null}
    IN  [f \in present \cup {"source_county"} |->
            IF f = "source_county" THEN CountyOf(raw) ELSE raw[mapping[f]]]

\* desc_parts: the stripped str of every DESCi that is present and truthy
RECURSIVE DescParts(_, _)
DescParts(raw, k) ==
    IF k > Len(DescFields) THEN <<>>
    ELSE IF DescFields[k] \in DOMAIN raw /\ Truthy(raw[DescFields[k]])
         THEN <<StripWs(ToStr(raw[DescFields[k]]))>> \o DescParts(raw, k + 1)
         ELSE DescParts(raw, k + 1)

\* ' | '.join(parts)
RECURSIVE Join(_)
Join(parts) ==
    IF Len(parts) = 0 THEN <<>>
    ELSE IF Len(parts) = 1 THEN parts[1]
    ELSE parts[1] \o <<" ", "|", " ">> \o Join(Tail(parts))

\* the Miami-Dade description override
WithDescription(data, raw) ==
    IF CountyOf(raw) = Str(MiamiDade) /\ Len(DescParts(raw, 1)) > 0
    THEN Put(data, "description", Str(Join(DescParts(raw, 1))))
    ELSE data

\* the permit value conversion
WithPermitValue(data) ==
    IF "permit_value" \in DOMAIN data
    THEN Put(data, "permit_value", permit_value_of(data["permit_value"]))
    ELSE data

\* the address cleanup
WithAddress(data) ==
    IF "address" \in DOMAIN data
    THEN Put(data, "address", Str(clean_address(data["address"])))
    ELSE data

\* the required_defaults loop
WithDefaults(data) ==
    [f \in (DOMAIN data) \cup (DOMAIN required_defaults) |->
        IF f \in DOMAIN required_defaults
           /\ (f \notin DOMAIN data \/ ~Truthy(data[f]))
        THEN required_defaults[f] ELSE data[f]]

\* WithIssueDate that keeps a source date that was mapped
WithIssueDate_KeepSource(data) ==
    IF "issue_date" \in DOMAIN data THEN data
    ELSE Put(data, "issue_date", Str(ProcessingDate))

\* normalized_data['issue_date'] = datetime.now().strftime('%m/%d/%Y')
WithIssueDate(data) == Put(data, "issue_date", Str(ProcessingDate))

\* `if self.enable_geocoding and normalized_data.get('address')`
WantsGeocoding(enable, data) ==
    enable /\ Truthy(Get(data, "address", Null))

\* normalize_permit up to the geocoding step: the exception raised
\* ("none"), normalized_data, whether geocode_address is called, and the
\* two cache keys geocode_address builds from normalized_data
Prepared(enable, raw_permit) ==
    IF MappingError(raw_permit) # "none"
    THEN [exc |-> MappingError(raw_permit), data |-> EmptyDict,
          wants |-> FALSE, full |-> <<>>, norm |-> <<>>]
    ELSE \* the set binding evaluates normalized_data once
         CHOOSE p \in
           {[exc |-> "none", data |-> data,
             wants |-> WantsGeocoding(enable, data),
             full |-> IF WantsGeocoding(enable, data)
                      THEN FullAddress(data["address"].s,
                                       Get(data, "city", Str(<<>>)),
                                       Get(data, "zipcode", Str(<<>>)))
                      ELSE <<>>,
             norm |-> IF WantsGeocoding(enable, data)
                      THEN clean_address_for_cache(
                               FullAddress(data["address"].s,
                                           Get(data, "city", Str(<<>>)),
                                           Get(data, "zipcode", Str(<<>>))))
                      ELSE <<>>] :
            data \in {WithIssueDate(WithAddress(WithPermitValue(
                          WithDescription(MapFields(raw_permit.d),
                                          raw_permit.d))))}} : TRUE

\* normalize_permit from the geocoding step on, with the service answering
\* resp if it is asked: the exception raised ("none") and the record
\* returned, the cache afterwards, and what geocode_address did
Completed(enable, api_key, cache, pre, resp, io) ==
    LET none == [exc |-> pre.exc, permit |-> Null, cache |-> cache,
                 entered |-> FALSE, called |-> FALSE, save |-> FALSE,
                 full |-> <<>>, norm |-> <<>>]
        geo == geocode_keys(enable, api_key, cache, pre.full, pre.norm, resp,
                            io)
        geocoded == IF pre.wants THEN Put(pre.data, "coordinates", geo.coords)
                    ELSE pre.data
        built == NormalizedPermit(WithDefaults(geocoded))
    IN  IF pre.exc # "none" THEN none
        ELSE IF pre.wants /\ geo.exc # "none"
        THEN [none EXCEPT !.exc = geo.exc, !.cache = geo.cache,
                          !.entered = TRUE, !.called = geo.called,
                          !.save = geo.save, !.full = pre.full,
                          !.norm = pre.norm]
        ELSE [exc |-> IF built.t = "error" THEN built.exc ELSE "none",
              permit |-> IF built.t = "error" THEN Null ELSE built,
              cache |-> IF pre.wants THEN geo.cache ELSE cache,
              entered |-> pre.wants,
              called |-> pre.wants /\ geo.called,
              save |-> pre.wants /\ geo.save,
              full |-> pre.full, norm |-> pre.norm]

\* PermitProcessor.normalize_permit(raw_permit)
normalize_permit(enable, api_key, cache, raw_permit, resp, io) ==
    Completed(enable, api_key, cache, Prepared(enable, raw_permit), resp, io)

\* ------------------------------------------------------------------------
\* The cache file
\* ------------------------------------------------------------------------
FileMissing == [t |-> "missing"]
FileCorrupt == [t |-> "corrupt"]
FileUnreadable == [t |-> "unreadable"]
JsonFile(obj) == [t |-> "json", obj |-> obj]

\* json.dump of a cache value: None -> null, a number -> a number literal
\* (an int without, a float with a fraction part), a list -> an array
JsonScalar(v) ==
    CASE v.t = "null" -> [j |-> "null"]
      [] v.t = "int" -> [j |-> "number", frac |-> FALSE, m |-> v.n, e |-> 0]
      [] v.t = "float" -> [j |-> "number", frac |-> TRUE, m |-> v.m, e |-> v.e]

JsonOf(v) ==
    IF v.t = "list"
    THEN [j |-> "array", items |-> [k \in 1..Len(v.xs) |-> JsonScalar(v.xs[k])]]
    ELSE JsonScalar(v)

\* json.load of a JSON value
PyScalar(j) ==
    CASE j.j = "null" -> Null
      [] j.j = "number" -> IF j.frac THEN FloatV(j.m, j.e) ELSE IntV(j.m)

PyOf(j) ==
    IF j.j = "array"
    THEN List([k \in 1..Len(j.items) |-> PyScalar(j.items[k])])
    ELSE PyScalar(j)

\* JsonDump that leaves out the entries holding None
JsonDump_PairsOnly(cache) ==
    [k \in {x \in DOMAIN cache : cache[x] # Null} |-> JsonOf(cache[k])]

\* json.dump(self.geocode_cache, f): the JSON object written
JsonDump(cache) == [k \in DOMAIN cache |-> JsonOf(cache[k])]
JsonLoad(obj) == [k \in DOMAIN obj |-> PyOf(obj[k])]

\* the exception raised inside the try block of load_geocoding_cache: open()
\* on a file that cannot be read, json.load on text that is no JSON
LoadException(file) ==
    CASE file.t = "unreadable" -> "OSError"
      [] file.t = "corrupt" -> "JSONDecodeError"
      [] OTHER -> "none"

\* LoadCatches of a load_geocoding_cache without the try block
LoadCatches_Nothing(exc) == FALSE

\* `except Exception` of load_geocoding_cache
LoadCatches(exc) == exc \in ExceptionClasses

\* the exception that leaves load_geocoding_cache, and with it __init__
LoadRaises(file) ==
    IF LoadException(file) # "none" /\ ~LoadCatches(LoadException(file))
    THEN LoadException(file) ELSE "none"

\* PermitProcessor.load_geocoding_cache: the file's mapping; {} when the
\* file does not exist or the try block raised
load_geocoding_cache(file) ==
    IF file.t = "json" THEN JsonLoad(file.obj) ELSE EmptyDict

\* the outcomes of the file write of save_geocoding_cache: written; open()
\* raises and the file is as before; open() has truncated the file and the
\* write raises
SaveOutcomes == {"ok", "open_fails", "dump_fails"}

\* save_geocoding_cache that reads the file again and writes its mapping
\* updated with the in-memory one
save_geocoding_cache_Merging(file, cache, io) ==
    CASE io = "ok" ->
           JsonFile(JsonDump(
               [k \in DOMAIN load_geocoding_cache(file) \cup DOMAIN cache |->
                   IF k \in DOMAIN cache THEN cache[k]
                   ELSE load_geocoding_cache(file)[k]]))
      [] io = "open_fails" -> file
      [] io = "dump_fails" -> FileCorrupt

\* PermitProcessor.save_geocoding_cache: the file afterwards (every
\* exception is logged and swallowed)
save_geocoding_cache(file, cache, io) ==
    CASE io = "ok" -> JsonFile(JsonDump(cache))
      [] io = "open_fails" -> file
      [] io = "dump_fails" -> FileCorrupt

\* ------------------------------------------------------------------------
\* The fetchers
\* ------------------------------------------------------------------------
\* the county tags as the fetchers write them
MiamiDadeTag == Str(MiamiDade)
HillsboroughTag == Str(Hillsborough)

\* records lo..hi of a source, in the source's order, each with the
\* source_county attribute tag (Absent: the source has no such attribute);
\* a list of records is a sequence of such runs
Records(lo, hi, tag) == [lo |-> lo, hi |-> hi, source_county |-> tag]

\* len(records)
RECURSIVE RecordCount(_)
RecordCount(records) ==
    IF Len(records) = 0 THEN 0
    ELSE (records[1].hi - records[1].lo + 1) + RecordCount(Tail(records))

\* Tagged as record.setdefault('source_county', county)
Tagged_KeepExisting(batch, county) ==
    [k \in DOMAIN batch |->
        IF batch[k].source_county = [t |-> "absent"]
        THEN [batch[k] EXCEPT !.source_county = county] ELSE batch[k]]

\* `for record in batch: record['source_county'] = county`
Tagged(batch, county) ==
    [k \in DOMAIN batch |-> [batch[k] EXCEPT !.source_county = county]]

\* records[:n] for n > 0
RECURSIVE Truncated(_, _)
Truncated(records, n) ==
    IF Len(records) = 0 \/ n <= 0 THEN <<>>
    ELSE IF records[1].hi - records[1].lo + 1 <= n
    THEN <<records[1]>>
         \o Truncated(Tail(records), n - (records[1].hi - records[1].lo + 1))
    ELSE <<[records[1] EXCEPT !.hi = records[1].lo + n - 1]>>

\* batch_size and PARAMS["resultRecordCount"] of fetch_miamidade_permits
batch_size == 2000
resultRecordCount == 2000

\* data["features"] of the answer to a query with resultOffset = offset: the
\* service holds `held` matching records and returns at most page_size of
\* them per request, and no more than were asked for
Features(held, page_size, offset) ==
    LET wanted == IF page_size < resultRecordCount THEN page_size
                  ELSE resultRecordCount
        n == IF held - offset < wanted THEN held - offset ELSE wanted
    IN  IF n <= 0 THEN <<>>
        ELSE <<Records(offset, offset + n - 1, [t |-> "absent"])>>

\* `if max_records and len(all_records) >= max_records`
ReachedLimit(max_records, all_records) ==
    Truthy(max_records) /\ RecordCount(all_records) >= max_records.n

\* PageEnds of a loop without the check for an empty page
PageEnds_Never(answer, features) == FALSE

\* `"features" not in data or not data["features"]`
PageEnds(answer, features) ==
    answer = "no_features" \/ Len(features) = 0

\* the fetcher between calls
FetcherIdle(held, page_size) ==
    [pc |-> "idle", held |-> held, page_size |-> page_size,
     max_records |-> Null, all_records |-> <<>>, offset |-> 0,
     requests |-> <<>>, ended |-> "none"]

\* the data file of fetch_hillsborough_permits: missing, not parseable, or
\* a table of `rows` rows with or without a source_county column
CsvMissing == [t |-> "missing"]
CsvBroken == [t |-> "broken"]
CsvTable(rows, column) == [t |-> "table", rows |-> rows, column |-> column]

\* df.to_dict('records')
CsvRecords(file) ==
    IF file.rows = 0 THEN <<>>
    ELSE <<Records(0, file.rows - 1, file.column)>>

\* fetch_hillsborough_permits(days_back, max_records)
fetch_hillsborough_permits(file, max_records) ==
    IF file.t = "table"
    THEN LET permits == Tagged(CsvRecords(file), HillsboroughTag)
         IN  IF Truthy(max_records) /\ RecordCount(permits) > max_records.n
             THEN Truncated(permits, max_records.n)
             ELSE permits
    ELSE <<>>

\* ------------------------------------------------------------------------
\* The upload and the pipeline
\* ------------------------------------------------------------------------
\* upload_permits_to_chroma(permits) for `permits` records of which
\* `documents` have content, with OPENAI_API_KEY set or not and the vector
\* store working or raising: the exception raised ("none") and the result
upload_permits_to_chroma(permits, api_key, documents, store) ==
    IF ~api_key
    THEN [exc |-> "ValueError", result |-> [status |-> "none"]]
    ELSE IF documents = 0
    THEN [exc |-> "none", result |-> [status |-> "error"]]
    ELSE IF store = "raises"
    THEN [exc |-> "none", result |-> [status |-> "error"]]
    ELSE [exc |-> "none",
          result |-> [status |-> "success", uploaded |-> documents,
                      skipped |-> permits - documents]]

\* PermitPipeline.upload_to_database(processed_permits): the try block
\* re-raises
upload_to_database(permits, api_key, documents, store) ==
    IF permits = 0
    THEN [exc |-> "none", result |-> [status |-> "no_data"]]
    ELSE upload_permits_to_chroma(permits, api_key, documents, store)

\* the result of run_pipeline once the upload step has ended
PipelineResult(fetched, processed, upload) ==
    IF upload.exc # "none"
    THEN [status |-> "failed", error |-> upload.exc]
    ELSE [status |-> "success", permits_fetched |-> fetched,
          permits_processed |-> processed,
          permits_uploaded |-> IF "uploaded" \in DOMAIN upload.result
                               THEN upload.result.uploaded ELSE 0,
          upload_details |-> upload.result]

\* the pipeline between calls
PipelineIdle ==
    [pc |-> "idle", max_records |-> Null, data_file |-> CsvMissing,
     miami |-> <<>>, hills |-> <<>>, all_permits |-> <<>>, processed |-> 0,
     upload |-> [exc |-> "none", result |-> [status |-> "none"]],
     result |-> [status |-> "none"]]

\* ------------------------------------------------------------------------
\* Bounds and inputs
\* ------------------------------------------------------------------------
\* records per batch
MaxBatch == 2
\* calls of normalize_and_geocode_permits per behaviour
MaxRuns == 2
\* failing writes of the cache file per behaviour
MaxSaveFailures == 1
\* length of the enumerated permit value strings
MaxValueLen == 3

\* coordinates the service or an earlier run has produced: (25.77, -80.19)
\* and (27.95, -82.46)
Pair1 == <<FloatV(2577, 2), FloatV(0 - 8019, 2)>>
Pair2 == <<FloatV(2795, 2), FloatV(0 - 8246, 2)>>

Responses ==
    {Results(Pair1[1], Pair1[2]), EmptyResults}
    \cup {Raises(exc) : exc \in ServiceExceptions}

\* raw permits of the batches: two Miami-Dade records whose full addresses
\* differ only in the case of the city (the second with a numeric ZIP), a
\* value that is no mapping, and a record whose county is a list (Raw3, a
\* Hillsborough record with a bare address, and Raw4, without address, are
\* among the single-record inputs)
Raw1 ==
    Dict([source_county |-> Str(MiamiDade), FOLIO |-> Str(<<"F","1">>),
          ADDRESS |-> Str(<<"1"," ","M","a","i","n"," ","S","t">>), CITY |-> Str(<<"M","i","a","m","i">>), ZIP |-> Str(<<"3","3","1","0","1">>)])
Raw2 ==
    Dict([source_county |-> Str(MiamiDade), FOLIO |-> Str(<<"F","2">>),
          ADDRESS |-> Str(<<"1"," ","M","a","i","n"," ","S","t">>), CITY |-> Str(<<"M","I","A","M","I">>), ZIP |-> IntV(33101)])
Raw3 ==
    Dict([x \in {"source_county", "Record Number", "Address"} |->
            CASE x = "source_county" -> Str(Hillsborough)
              [] x = "Record Number" -> Str(<<"H","3">>)
              [] x = "Address" -> Str(<<"9"," ","O","a","k"," ","R","o","a","d">>)])
Raw4 ==
    Dict([source_county |-> Str(MiamiDade), FOLIO |-> Str(<<"F","4">>),
          CITY |-> Str(<<"M","i","a","m","i">>)])
Raw5 == Null
Raw6 == Dict([source_county |-> List(<<Str(MiamiDade)>>),
              FOLIO |-> Str(<<"F","6">>)])

RawPermits == {Raw1, Raw2, Raw5, Raw6}

RECURSIVE SeqsUpTo(_, _)
SeqsUpTo(S, n) ==
    IF n = 0 THEN {<<>>}
    ELSE LET shorter == SeqsUpTo(S, n - 1)
         IN  shorter \cup {Append(q, x) : q \in {r \in shorter : Len(r) = n - 1}, x \in S}

Batches == SeqsUpTo(RawPermits, MaxBatch)

\* cache files found at startup: none; a pair under the full address of
\* Raw1; a pair under its title-cased form; null under the full address and
\* a pair under the title-cased form
Key1Full ==
    <<"1"," ","M","A","I","N"," ","S","T",","," ","M","i","a","m","i",","," ","F","L"," ","3","3","1","0","1">>
Key1Norm ==
    <<"1"," ","M","a","i","n"," ","S","t",","," ","M","i","a","m","i",","," ","F","L"," ","3","3","1","0","1">>
InitialFiles ==
    {FileMissing,
     JsonFile(JsonDump([k \in {Key1Full} |-> List(Pair1)])),
     JsonFile(JsonDump([k \in {Key1Norm} |-> List(Pair1)])),
     JsonFile(JsonDump([k \in {Key1Full, Key1Norm} |->
                          IF k = Key1Full THEN Null ELSE List(Pair2)]))}

\* ------------------------------------------------------------------------
\* State
\* ------------------------------------------------------------------------
VARIABLES
    pc,                 \* "idle", "running", "done", "failed": where
                        \* normalize_and_geocode_permits is
    run,                \* calls of normalize_and_geocode_permits so far
    raw_permits,        \* the batch
    cache_file,         \* data/cache/geocode_cache.json
    enable_geocoding,   \* processor.enable_geocoding
    google_api_key,     \* processor.google_api_key is set
    geocode_cache,      \* processor.geocode_cache
    i,                  \* records of the batch consumed by process_permits
    normalized_permits, \* the list process_permits builds
    log,                \* per consumed record: what normalize_permit did
    save_log,           \* per call of save_geocoding_cache: when it was made
    startup_cache,      \* geocode_cache as loaded by __init__
    neg_stored,         \* full addresses whose live lookup came back empty
    save_failures,      \* failed writes of the cache file so far
    calls,              \* direct calls of the two address cleanup methods:
                        \* the method, its argument and its result
    fetcher,            \* fetch_miamidade_permits: the service it queries,
                        \* its locals, the requests it has made
    pipeline,           \* PermitPipeline.run_pipeline: its step, its
                        \* locals, its result
    instances           \* PermitProcessor instances of other processes
                        \* that share the cache file

vars ==
    <<pc, run, raw_permits, cache_file, enable_geocoding, google_api_key,
      geocode_cache, i, normalized_permits, log, save_log, startup_cache,
      neg_stored, save_failures, calls, fetcher, pipeline, instances>>

\* lookup of a key as a plain dictionary read, for the log
Absent == [t |-> "absent"]
Entry(cache, key) == IF key \in DOMAIN cache THEN cache[key] ELSE Absent

\* the state before the first call of normalize_and_geocode_permits
InitProcessor(batches, files, runs) ==
    /\ pc = "idle"
    /\ run = runs
    /\ raw_permits \in batches
    /\ cache_file \in files
    /\ enable_geocoding = FALSE
    /\ google_api_key = FALSE
    /\ geocode_cache = EmptyDict
    /\ i = 0
    /\ normalized_permits = <<>>
    /\ log = <<>>
    /\ save_log = <<>>
    /\ startup_cache = EmptyDict
    /\ neg_stored = {}
    /\ save_failures = 0
    /\ calls = <<>>

InitWith(batches, files, runs) ==
    /\ InitProcessor(batches, files, runs)
    /\ fetcher = FetcherIdle(0, resultRecordCount)
    /\ pipeline = PipelineIdle
    /\ instances = <<>>

Init == InitWith(Batches, InitialFiles, 0)

\* normalize_and_geocode_permits up to the loop of process_permits:
\* PermitProcessor(enable_geocoding) reads the environment and the cache file
StartRun(enable, api_key) ==
    /\ pc \in {"idle", "done"}
    /\ run < MaxRuns
    /\ run' = run + 1
    /\ enable_geocoding' = enable
    /\ google_api_key' = api_key
    /\ i' = 0
    /\ normalized_permits' = <<>>
    /\ log' = <<>>
    /\ save_log' = <<>>
    /\ IF LoadRaises(cache_file) = "none"
       THEN /\ pc' = "running"
            /\ geocode_cache' = load_geocoding_cache(cache_file)
            /\ startup_cache' = load_geocoding_cache(cache_file)
       ELSE /\ pc' = "failed"
            /\ UNCHANGED <<geocode_cache, startup_cache>>
    /\ UNCHANGED <<raw_permits, cache_file, neg_stored, save_failures, calls,
                   fetcher, pipeline, instances>>

\* `except Exception` of process_permits
BatchCatches(exc) == exc \in ExceptionClasses

\* Collected that keeps a place for a failed record
Collected_WithPlaceholder(permits, exc, permit) == Append(permits, permit)

\* the list after one iteration whose normalize_permit ended with exc
Collected(permits, exc, permit) ==
    IF exc = "none" THEN Append(permits, permit) ELSE permits

\* normalize_permit up to the geocoding step reads nothing of the
\* processor but enable_geocoding: the records of the batches, prepared once
PreparedRecords ==
    [enable \in BOOLEAN |-> [raw \in RawPermits |-> Prepared(enable, raw)]]

\* one iteration of the loop of process_permits: normalize_permit of
\* raw_permits[i], with the service answering resp and the file write
\* ending as io when they are reached
ProcessRecord ==
    /\ pc = "running"
    /\ i < Len(raw_permits)
    /\ \E pre \in {IF raw_permits[i + 1] \in RawPermits
                    THEN PreparedRecords[enable_geocoding][raw_permits[i + 1]]
                    ELSE Prepared(enable_geocoding, raw_permits[i + 1])} :
       \E unasked \in {Completed(enable_geocoding, google_api_key,
                                  geocode_cache, pre, EmptyResults, "ok")} :
       \E resp \in IF unasked.called THEN Responses ELSE {EmptyResults} :
       \E written \in {IF unasked.called
                       THEN Completed(enable_geocoding, google_api_key,
                                      geocode_cache, pre, resp, "ok")
                       ELSE unasked} :
       \E io \in IF written.save THEN SaveOutcomes ELSE {"ok"} :
       \E r \in {IF io = "ok" THEN written
                 ELSE Completed(enable_geocoding, google_api_key,
                                geocode_cache, pre, resp, io)} :
       LET failed == r.save /\ io # "ok"
       IN  /\ failed => save_failures < MaxSaveFailures
           /\ save_failures' = IF failed THEN save_failures + 1
                                ELSE save_failures
           /\ geocode_cache' = r.cache
           /\ cache_file' = IF r.save
                             THEN save_geocoding_cache(cache_file, r.cache, io)
                             ELSE cache_file
           /\ save_log' = IF r.save
                           THEN Append(save_log, [at |-> i + 1,
                                                  phase |-> "record",
                                                  io |-> io])
                           ELSE save_log
           /\ neg_stored' = IF r.called /\ resp = EmptyResults
                             THEN neg_stored \cup {r.full} ELSE neg_stored
           /\ log' = Append(log,
                  [exc |-> r.exc, permit |-> r.permit, entered |-> r.entered,
                   called |-> r.called,
                   answer |-> IF r.called THEN resp.kind ELSE "none",
                   requests |-> IF r.called THEN ServiceRequests(resp) ELSE 0,
                   save |-> r.save, full |-> r.full, norm |-> r.norm,
                   after_full |-> IF r.entered THEN Entry(r.cache, r.full)
                                  ELSE Absent,
                   before_full |-> IF r.entered
                                   THEN Entry(geocode_cache, r.full)
                                   ELSE Absent,
                   before_norm |-> IF r.entered
                                   THEN Entry(geocode_cache, r.norm)
                                   ELSE Absent,
                   after_negative |-> /\ r.entered
                                      /\ r.full \in neg_stored
                                      /\ Entry(geocode_cache, r.full) = Null])
           /\ IF r.exc = "none" \/ BatchCatches(r.exc)
              THEN /\ normalized_permits' =
                          Collected(normalized_permits, r.exc, r.permit)
                   /\ i' = i + 1
                   /\ pc' = "running"
              ELSE /\ pc' = "failed"
                   /\ UNCHANGED <<normalized_permits, i>>
    /\ UNCHANGED <<run, raw_permits, enable_geocoding, google_api_key,
                   startup_cache, calls, fetcher, pipeline, instances>>

\* FinalFlush of a run that saves the cache whatever enable_geocoding is
FinalFlush_Always(enable) == TRUE

\* `if enable_geocoding: processor.save_geocoding_cache()`
FinalFlush(enable) == enable

\* the end of normalize_and_geocode_permits: process_permits returns, the
\* cache is saved, the list is returned
FinishRun(io) ==
    /\ pc = "running"
    /\ i = Len(raw_permits)
    /\ pc' = IF FinalFlush(enable_geocoding) /\ SaveRaises(io) # "none"
             THEN "failed" ELSE "done"
    /\ FinalFlush(enable_geocoding) \/ io = "ok"
    /\ LET failed == FinalFlush(enable_geocoding) /\ io # "ok"
       IN  /\ failed => save_failures < MaxSaveFailures
           /\ save_failures' = IF failed THEN save_failures + 1
                                ELSE save_failures
    /\ IF FinalFlush(enable_geocoding)
       THEN /\ cache_file' = save_geocoding_cache(cache_file, geocode_cache, io)
            /\ save_log' = Append(save_log, [at |-> i, phase |-> "final",
                                             io |-> io])
       ELSE UNCHANGED <<cache_file, save_log>>
    /\ UNCHANGED <<run, raw_permits, enable_geocoding, google_api_key,
                   geocode_cache, i, normalized_permits, log, startup_cache,
                   neg_stored, calls, fetcher, pipeline, instances>>

Next ==
    \/ \E enable \in BOOLEAN, api_key \in BOOLEAN : StartRun(enable, api_key)
    \/ ProcessRecord
    \/ \E io \in SaveOutcomes : FinishRun(io)

Spec == Init /\ [][Next]_vars

\* ------------------------------------------------------------------------
\* Single-record inputs: every combination of missing, null and present
\* source fields
\* ------------------------------------------------------------------------
\* a value for each canonical field as a source record carries it
SampleValue ==
    [permit_id |-> Str(<<"F","1">>), permit_type |-> Str(<<"B">>),
     description |-> Str(<<"R","o","o","f">>), address |-> Str(<<"1"," ","M","a","i","n"," ","S","t">>),
     city |-> Str(<<"M","i","a","m","i">>), zipcode |-> Str(<<"3","3","1","0","1">>),
     applicant_name |-> Str(<<"A","n","n">>),
     contractor_name |-> Str(<<"B","o","b">>),
     permit_value |-> Str(<<"$","5">>), issue_date |-> Str(<<"1","/","2">>),
     expiration_date |-> Str(<<"3","/","4">>),
     status |-> Str(<<"O","p","e","n">>)]

FieldStates == {"missing", "null", "present"}
\* fields whose state is chosen one by one, and fields that share a state
\* pattern
VariedFields ==
    {"permit_id", "permit_type", "description", "address", "city", "zipcode",
     "permit_value"}
PassThroughFields ==
    {"applicant_name", "contractor_name", "issue_date", "expiration_date",
     "status"}
PassThroughPatterns ==
    {[f \in PassThroughFields |->
        IF f \in {"applicant_name", "expiration_date"} THEN "missing"
        ELSE IF f = "status" THEN "null" ELSE "present"],
     [f \in PassThroughFields |->
        IF f \in {"applicant_name", "issue_date"} THEN "null"
        ELSE IF f = "expiration_date" THEN "present" ELSE "missing"]}

\* the raw record of county c (a key of field_mappings) with the source
\* fields in the given states
RawOf(c, states) ==
    LET mapping == field_mappings[c]
        kept == {f \in DOMAIN mapping : states[f] # "missing"}
        src == {mapping[f] : f \in kept}
    IN  Dict([x \in src \cup {"source_county"} |->
                IF x = "source_county" THEN c
                ELSE LET f == CHOOSE g \in kept : mapping[g] = x
                     IN  IF states[f] = "null" THEN Null ELSE SampleValue[f]])

\* records without a usable county: the tag missing, null and unrecognised;
\* and a Miami-Dade record described by DESC2 only
OtherCounty == <<"b","r","o","w","a","r","d">>
UntaggedRaws ==
    {Dict([FOLIO |-> Str(<<"F","1">>), ADDRESS |-> Str(<<"1"," ","M","a","i","n"," ","S","t">>)]),
     Dict([source_county |-> Null, FOLIO |-> Str(<<"F","1">>),
           ADDRESS |-> Str(<<"1"," ","M","a","i","n"," ","S","t">>)]),
     Dict([source_county |-> Str(OtherCounty), FOLIO |-> Str(<<"F","1">>),
           ADDRESS |-> Str(<<"1"," ","M","a","i","n"," ","S","t">>)]),
     Dict([source_county |-> Str(MiamiDade), DESC2 |-> Str(<<"R","e">>)]),
     Raw3, Raw4}

\* Miami-Dade records with every state of every varied field; Hillsborough
\* records with every varied field missing or present
NormInputs ==
    {RawOf(Str(MiamiDade), [f \in VariedFields \cup PassThroughFields |->
                 IF f \in VariedFields THEN vs[f] ELSE ps[f]]) :
        vs \in [VariedFields -> FieldStates], ps \in PassThroughPatterns}
    \cup
    {RawOf(Str(Hillsborough), [f \in VariedFields \cup PassThroughFields |->
                 IF f \in VariedFields THEN vs[f] ELSE ps[f]]) :
        vs \in [VariedFields -> {"missing", "present"}],
        ps \in PassThroughPatterns}
    \cup UntaggedRaws

\* the last call of normalize_and_geocode_permits of a behaviour is made
\* with one of the records
InitNorm == InitWith({<<raw>> : raw \in NormInputs}, {FileMissing}, MaxRuns - 1)

SpecNorm == InitNorm /\ [][Next]_vars

\* ------------------------------------------------------------------------
\* Permit value inputs: every string up to MaxValueLen over the alphabet,
\* some longer ones, and numbers
\* ------------------------------------------------------------------------
ValueAlphabet == {"$", ",", "1", "0", ".", " ", "-", "N", "A"}
NamedValues ==
    {<<"$","1","2",",","3","4","5",".","0","0">>, <<"N","/","A">>, <<"1","e","3">>, <<"1","_","0">>, <<"n","a","n">>,
     <<" ","$","1",",","0","0","0"," ">>, <<"1",".","5","0">>,
     <<"1","2",",","5","."," ","0">>}
ValueStrings == SeqsUpTo(ValueAlphabet, MaxValueLen) \cup NamedValues
RawValues == {Str(v) : v \in ValueStrings} \cup {IntV(0), IntV(5000), IntV(0 - 7)}

\* the Hillsborough record whose Estimated Value is v
ValueRaw(v) ==
    Dict([x \in {"source_county", "Record Number", "Estimated Value"} |->
            CASE x = "source_county" -> Str(Hillsborough)
              [] x = "Record Number" -> Str(<<"H","1">>)
              [] x = "Estimated Value" -> v])

InitValue ==
    InitWith({<<ValueRaw(v)>> : v \in RawValues}, {FileMissing}, MaxRuns - 1)

SpecValue == InitValue /\ [][Next]_vars

\* ------------------------------------------------------------------------
\* Description inputs: Miami-Dade records whose DESC1..DESC<MaxDescFields>
\* are each absent, None, empty, blank, a text, a padded text or a number,
\* with or without DESC10
\* ------------------------------------------------------------------------
MaxDescFields == 3

NoField == [t |-> "nofield"]
DescValues ==
    {NoField, Null, Str(<<>>), Str(<<" ">>), Str(<<"R","o","o","f"," ","r","e","p","a","i","r">>), Str(<<"R","e","r","o","o","f">>),
     Str(<<" ","S","l","a","b"," ">>), IntV(7)}
DescLast == {NoField, Str(<<"F","i","n","a","l">>)}

\* the record with DESCk = vals[k] and DESC10 = last
DescRaw(vals, last) ==
    LET given == {DescFields[k] : k \in {n \in 1..MaxDescFields : vals[n] # NoField}}
                 \cup (IF last = NoField THEN {} ELSE {"DESC10"})
    IN  Dict([x \in given \cup {"source_county", "FOLIO"} |->
                CASE x = "source_county" -> Str(MiamiDade)
                  [] x = "FOLIO" -> Str(<<"F","1">>)
                  [] x = "DESC10" -> last
                  [] OTHER -> vals[CHOOSE k \in 1..MaxDescFields :
                                       DescFields[k] = x]])

DescInputs ==
    {DescRaw(vals, last) :
        vals \in [1..MaxDescFields -> DescValues], last \in DescLast}

InitDesc == InitWith({<<raw>> : raw \in DescInputs}, {FileMissing}, MaxRuns - 1)

SpecDesc == InitDesc /\ [][Next]_vars

\* ------------------------------------------------------------------------
\* Startup inputs: one call of normalize_and_geocode_permits with every
\* kind of cache file, the failing ones included
\* ------------------------------------------------------------------------
StartupFiles == InitialFiles \cup {FileCorrupt, FileUnreadable}

InitLoad == InitWith({<<>>, <<Raw1>>, <<Raw1, Raw2>>}, StartupFiles, MaxRuns - 1)

SpecLoad == InitLoad /\ [][Next]_vars

\* ------------------------------------------------------------------------
\* Direct calls of clean_address and clean_address_for_cache: a call with an
\* address, then a call with a variation of that address or with the result
\* of the first call
\* ------------------------------------------------------------------------
MaxAddrTokens == 2

\* pieces of addresses: directionals, street types and the state in several
\* spellings (one with the st ligature), a number, whitespace, word
\* characters
AddressTokens ==
    {<<"N","O","R","T","H">>,
     <<"n","o","r","t","h"," ">>,
     <<"E","A","S","T">>,
     <<" ","S","t","r","e","e","t">>,
     <<" ","s","t">>,
     <<","," ","F","L">>,
     <<" ","f","l">>,
     <<"1"," ">>,
     <<" "," ">>,
     <<"_">>,
     <<"\t">>, <<"a">>, <<Ligature,"r","e","e","t">>}

RECURSIVE Concat(_)
Concat(parts) ==
    IF Len(parts) = 0 THEN <<>> ELSE parts[1] \o Concat(Tail(parts))

Addresses == {Concat(parts) : parts \in SeqsUpTo(AddressTokens, MaxAddrTokens)}

\* s with the case of every letter flipped
SwapCase(s) ==
    [k \in 1..Len(s) |-> IF IsUpper(s[k]) THEN ToLower(s[k]) ELSE ToUpper(s[k])]

\* s with every whitespace character replaced by a longer run, and padded
RECURSIVE Widen(_)
Widen(s) ==
    IF Len(s) = 0 THEN <<>>
    ELSE IF IsSpace(s[1]) THEN <<" ", "\t">> \o Widen(Tail(s))
         ELSE <<s[1]>> \o Widen(Tail(s))
Respace(s) == <<" ">> \o Widen(s) \o <<"\t", " ">>

\* s with every spelled-out directional and street type abbreviated
Abbreviate(s) == SubAll(SubAll(s, DirectionalMap, 1, TRUE), StreetTypes, 1, TRUE)

\* the arguments of a second call
FollowUps(first) ==
    {Upper(first.arg), Lower(first.arg), SwapCase(first.arg),
     Respace(first.arg), Abbreviate(first.arg), first.result}

CallArgs ==
    IF Len(calls) = 0 THEN Addresses
    ELSE IF Len(calls) = 1 THEN FollowUps(calls[1])
    ELSE {}

\* processor.clean_address(x)
CleanAddress(x) ==
    /\ pc = "idle"
    /\ x \in CallArgs
    /\ calls' = Append(calls, [fn |-> "clean_address", arg |-> x,
                               result |-> clean_address(Str(x))])
    /\ UNCHANGED <<pc, run, raw_permits, cache_file, enable_geocoding,
                   google_api_key, geocode_cache, i, normalized_permits, log,
                   save_log, startup_cache, neg_stored, save_failures,
                   fetcher, pipeline, instances>>

\* processor.clean_address_for_cache(x)
CleanAddressForCache(x) ==
    /\ pc = "idle"
    /\ x \in CallArgs
    /\ calls' = Append(calls, [fn |-> "clean_address_for_cache", arg |-> x,
                               result |-> clean_address_for_cache(x)])
    /\ UNCHANGED <<pc, run, raw_permits, cache_file, enable_geocoding,
                   google_api_key, geocode_cache, i, normalized_permits, log,
                   save_log, startup_cache, neg_stored, save_failures,
                   fetcher, pipeline, instances>>

InitAddr == InitWith({<<>>}, {FileMissing}, MaxRuns)

NextAddr ==
    \/ \E x \in CallArgs : CleanAddress(x)
    \/ \E x \in CallArgs : CleanAddressForCache(x)

SpecAddr == InitAddr /\ [][NextAddr]_vars

\* ------------------------------------------------------------------------
\* Batches that mix a record with an address with records without one
\* (Raw4, and a record whose ADDRESS is the empty string)
\* ------------------------------------------------------------------------
RawEmptyAddress ==
    Dict([source_county |-> Str(MiamiDade), FOLIO |-> Str(<<"F","7">>),
          ADDRESS |-> Str(<<>>), CITY |-> Str(<<"M","i","a","m","i">>)])

InitFrame ==
    InitWith(SeqsUpTo({Raw1, Raw4, RawEmptyAddress}, MaxBatch), InitialFiles,
             MaxRuns - 1)

SpecFrame == InitFrame /\ [][Next]_vars

\* ------------------------------------------------------------------------
\* Runs on a cache file that the legacy geocoder has written and
\* restructure_project.py has moved to data/cache/geocode_cache.json
\* ------------------------------------------------------------------------
\* the entry geocode_google of the legacy prepare_permits.py leaves under an
\* address: (lat, lon) for an answer with a location, (None, None) otherwise
legacy_entry(resp) ==
    IF resp.kind = "results" THEN List(<<resp.lat, resp.lng>>)
    ELSE List(<<Null, Null>>)

\* the address of Raw3 as the legacy geocoder was given it
LegacyKey == <<"9"," ","O","a","k"," ","R","d">>

LegacyFiles ==
    {JsonFile(JsonDump([k \in {LegacyKey} |-> legacy_entry(resp)])) :
        resp \in {Results(Pair2[1], Pair2[2]), EmptyResults}}
    \cup {JsonFile(JsonDump([k \in {LegacyKey, Key1Full} |->
                               IF k = LegacyKey THEN legacy_entry(EmptyResults)
                               ELSE List(Pair1)]))}

InitLegacy == InitWith(SeqsUpTo({Raw1, Raw3}, MaxBatch), LegacyFiles, 0)

SpecLegacy == InitLegacy /\ [][Next]_vars

\* ------------------------------------------------------------------------
\* Two processes that each run normalize_and_geocode_permits with geocoding
\* enabled and an API key, on the same cache file
\* ------------------------------------------------------------------------
Processes == {1, 2}

InstanceBatches == SeqsUpTo({Raw1, Raw2}, MaxBatch - 1)

\* a process before its call: its batch; then its PermitProcessor's
\* geocode_cache and its position in process_permits; put: the keys it has
\* written and flushed; flushes: its successful writes of the file; last:
\* the latest successful write of the file was its own
NewInstance(batch) ==
    [pc |-> "new", raw_permits |-> batch, geocode_cache |-> EmptyDict,
     i |-> 0, put |-> {}, flushes |-> 0, last |-> FALSE]

\* the other instances after a successful write of the file by process p
Overwritten(p, written) ==
    [q \in DOMAIN instances |->
        IF q = p THEN written ELSE [instances[q] EXCEPT !.last = FALSE]]

\* PermitProcessor(enable_geocoding) in process p: the cache file is loaded
StartInstance(p) ==
    /\ instances[p].pc = "new"
    /\ instances' =
          [instances EXCEPT
             ![p].pc = IF LoadRaises(cache_file) = "none" THEN "running"
                       ELSE "failed",
             ![p].geocode_cache = load_geocoding_cache(cache_file)]
    /\ UNCHANGED <<pc, run, raw_permits, cache_file, enable_geocoding,
                   google_api_key, geocode_cache, i, normalized_permits, log,
                   save_log, startup_cache, neg_stored, save_failures, calls,
                   fetcher, pipeline>>

\* one iteration of process_permits in process p
InstanceRecord(p, resp, io) ==
    /\ instances[p].pc = "running"
    /\ instances[p].i < Len(instances[p].raw_permits)
    /\ \E r \in {Completed(TRUE, TRUE, instances[p].geocode_cache,
                           PreparedRecords[TRUE][
                               instances[p].raw_permits[instances[p].i + 1]],
                           resp, io)} :
       LET failed == r.save /\ io # "ok"
           stepped ==
               [instances[p] EXCEPT
                  !.geocode_cache = r.cache,
                  !.i = IF r.exc = "none" \/ BatchCatches(r.exc)
                        THEN instances[p].i + 1 ELSE instances[p].i,
                  !.pc = IF r.exc = "none" \/ BatchCatches(r.exc)
                         THEN "running" ELSE "failed"]
       IN  /\ r.called \/ resp = EmptyResults
           /\ r.save \/ io = "ok"
           /\ failed => save_failures < MaxSaveFailures
           /\ save_failures' = IF failed THEN save_failures + 1
                                ELSE save_failures
           /\ cache_file' = IF r.save
                             THEN save_geocoding_cache(cache_file, r.cache, io)
                             ELSE cache_file
           /\ instances' =
                 IF r.save /\ io = "ok"
                 THEN Overwritten(p, [stepped EXCEPT
                                        !.put = instances[p].put \cup {r.full},
                                        !.flushes = instances[p].flushes + 1,
                                        !.last = TRUE])
                 ELSE [instances EXCEPT ![p] = stepped]
    /\ UNCHANGED <<pc, run, raw_permits, enable_geocoding, google_api_key,
                   geocode_cache, i, normalized_permits, log, save_log,
                   startup_cache, neg_stored, calls, fetcher, pipeline>>

\* the final flush of normalize_and_geocode_permits in process p
FinishInstance(p, io) ==
    /\ instances[p].pc = "running"
    /\ instances[p].i = Len(instances[p].raw_permits)
    /\ io # "ok" => save_failures < MaxSaveFailures
    /\ save_failures' = IF io # "ok" THEN save_failures + 1 ELSE save_failures
    /\ cache_file' = save_geocoding_cache(cache_file,
                                          instances[p].geocode_cache, io)
    /\ LET ended == [instances[p] EXCEPT
                       !.pc = IF SaveRaises(io) # "none" THEN "failed"
                              ELSE "done"]
       IN  instances' =
             IF io = "ok"
             THEN Overwritten(p, [ended EXCEPT
                                    !.flushes = instances[p].flushes + 1,
                                    !.last = TRUE])
             ELSE [instances EXCEPT ![p] = ended]
    /\ UNCHANGED <<pc, run, raw_permits, enable_geocoding, google_api_key,
                   geocode_cache, i, normalized_permits, log, save_log,
                   startup_cache, neg_stored, calls, fetcher, pipeline>>

InitShared ==
    /\ InitProcessor({<<>>}, {FileMissing}, MaxRuns)
    /\ fetcher = FetcherIdle(0, resultRecordCount)
    /\ pipeline = PipelineIdle
    /\ instances \in [Processes -> {NewInstance(b) : b \in InstanceBatches}]

NextShared ==
    \/ \E p \in Processes : StartInstance(p)
    \/ \E p \in Processes, resp \in Responses, io \in SaveOutcomes :
          InstanceRecord(p, resp, io)
    \/ \E p \in Processes, io \in SaveOutcomes : FinishInstance(p, io)

SpecShared == InitShared /\ [][NextShared]_vars

\* ------------------------------------------------------------------------
\* Pipeline runs: one call of run_pipeline against a service that holds a
\* number of records around multiples of the requested page and returns at
\* most page_size of them per request
\* ------------------------------------------------------------------------
\* full pages the service holds at most
MaxPages == 2

HeldCounts ==
    {0, 1, 2}
    \cup {k * batch_size + d : k \in 1..MaxPages, d \in {0 - 1, 0, 1}}
PageSizes == {1, 1000, 1999, 2000}
MaxRecordsChoices == {Null, IntV(1), IntV(1000), IntV(2000), IntV(2500)}
DataFiles ==
    {CsvMissing, CsvBroken, CsvTable(0, Absent), CsvTable(3, Absent),
     CsvTable(2500, Str(OtherCounty))}

\* the answers to a request of fetch_miamidade_permits: a body with
\* features, a body without (an error body), a requests.RequestException
Answers == {"page", "no_features", "raise"}

\* the largest offset a query is made with
MaxOffset == (MaxPages + 1) * batch_size

\* run_pipeline(days_back, max_records_per_county) up to the first request
\* of fetch_miamidade_permits
RunPipeline(max_records) ==
    /\ pc = "idle"
    /\ pipeline.pc = "idle"
    /\ pipeline' = [PipelineIdle EXCEPT !.pc = "miami",
                                        !.max_records = max_records]
    /\ fetcher' = [FetcherIdle(fetcher.held, fetcher.page_size) EXCEPT
                      !.pc = "loop", !.max_records = max_records]
    /\ UNCHANGED <<pc, run, raw_permits, cache_file, enable_geocoding,
                   google_api_key, geocode_cache, i, normalized_permits, log,
                   save_log, startup_cache, neg_stored, save_failures, calls,
                   instances>>

\* one iteration of the loop of fetch_miamidade_permits, the request answered
\* with `answer`; when the loop breaks, the return to fetch_permits
FetchPage(answer) ==
    /\ fetcher.pc = "loop"
    /\ fetcher.offset <= MaxOffset
    /\ LET features == Features(fetcher.held, fetcher.page_size, fetcher.offset)
           asked == Append(fetcher.requests,
                           [offset |-> fetcher.offset, answer |-> answer])
           ended == IF ReachedLimit(fetcher.max_records, fetcher.all_records)
                    THEN "max_records"
                    ELSE IF answer = "raise" THEN "error"
                    ELSE IF PageEnds(answer, features) THEN "empty"
                    ELSE "none"
       IN  IF ended # "none"
           THEN /\ fetcher' = [fetcher EXCEPT
                                 !.pc = "returned", !.ended = ended,
                                 !.requests = IF ended = "max_records"
                                              THEN fetcher.requests ELSE asked]
                /\ pipeline' = [pipeline EXCEPT
                                  !.pc = "hillsborough",
                                  !.miami = fetcher.all_records]
           ELSE /\ fetcher' = [fetcher EXCEPT
                                 !.all_records =
                                     fetcher.all_records
                                     \o Tagged(features, MiamiDadeTag),
                                 !.offset = fetcher.offset + batch_size,
                                 !.requests = asked]
                /\ UNCHANGED pipeline
    /\ UNCHANGED <<pc, run, raw_permits, cache_file, enable_geocoding,
                   google_api_key, geocode_cache, i, normalized_permits, log,
                   save_log, startup_cache, neg_stored, save_failures, calls,
                   instances>>

\* the rest of fetch_permits: fetch_hillsborough_permits_sync on the data
\* file, the raw file written (io), and the check of run_pipeline for an
\* empty list
FetchHillsborough(file, io) ==
    /\ pipeline.pc = "hillsborough"
    /\ LET hills == fetch_hillsborough_permits(file, pipeline.max_records)
           all_permits == pipeline.miami \o hills
           fetched == [pipeline EXCEPT !.data_file = file, !.hills = hills,
                                       !.all_permits = all_permits]
       IN  pipeline' =
             IF Len(all_permits) = 0
             THEN [fetched EXCEPT !.pc = "returned",
                                  !.result = [status |-> "no_data"]]
             ELSE IF io # "ok"
             THEN [fetched EXCEPT !.pc = "returned",
                                  !.result = [status |-> "failed",
                                              error |-> "OSError"]]
             ELSE [fetched EXCEPT !.pc = "process"]
    /\ UNCHANGED <<pc, run, raw_permits, cache_file, enable_geocoding,
                   google_api_key, geocode_cache, i, normalized_permits, log,
                   save_log, startup_cache, neg_stored, save_failures, calls,
                   fetcher, instances>>

\* the outcomes of PermitPipeline.process_permits for the pipeline: every
\* record normalized, one record skipped, every record skipped, an exception
ProcessOutcomes == {"all", "one_skipped", "none", "raises"}

\* step 2 of run_pipeline
ProcessPermits(outcome) ==
    /\ pipeline.pc = "process"
    /\ LET total == RecordCount(pipeline.all_permits)
           processed == CASE outcome = "all" -> total
                          [] outcome = "one_skipped" -> total - 1
                          [] OTHER -> 0
       IN  pipeline' =
             IF outcome = "raises"
             THEN [pipeline EXCEPT !.pc = "returned",
                                   !.result = [status |-> "failed",
                                               error |-> "OSError"]]
             ELSE IF processed = 0
             THEN [pipeline EXCEPT !.pc = "returned",
                                   !.result = [status |-> "processing_failed"]]
             ELSE [pipeline EXCEPT !.pc = "upload", !.processed = processed]
    /\ UNCHANGED <<pc, run, raw_permits, cache_file, enable_geocoding,
                   google_api_key, geocode_cache, i, normalized_permits, log,
                   save_log, startup_cache, neg_stored, save_failures, calls,
                   fetcher, instances>>

\* step 3 of run_pipeline and its return: OPENAI_API_KEY is set or not, all
\* or none of the permits have content, the vector store works or raises
UploadToDatabase(api_key, content, store) ==
    /\ pipeline.pc = "upload"
    /\ LET documents == IF content THEN pipeline.processed ELSE 0
           upload == upload_to_database(pipeline.processed, api_key,
                                        documents, store)
       IN  pipeline' =
             [pipeline EXCEPT
                !.pc = "returned", !.upload = upload,
                !.result = PipelineResult(RecordCount(pipeline.all_permits),
                                          pipeline.processed, upload)]
    /\ UNCHANGED <<pc, run, raw_permits, cache_file, enable_geocoding,
                   google_api_key, geocode_cache, i, normalized_permits, log,
                   save_log, startup_cache, neg_stored, save_failures, calls,
                   fetcher, instances>>

InitPipeline ==
    /\ InitProcessor({<<>>}, {FileMissing}, MaxRuns)
    /\ \E held \in HeldCounts, page_size \in PageSizes :
          fetcher = FetcherIdle(held, page_size)
    /\ pipeline = PipelineIdle
    /\ instances = <<>>

NextPipeline ==
    \/ \E max_records \in MaxRecordsChoices : RunPipeline(max_records)
    \/ \E answer \in Answers : FetchPage(answer)
    \/ \E file \in DataFiles, io \in {"ok", "raises"} :
          FetchHillsborough(file, io)
    \/ \E outcome \in ProcessOutcomes : ProcessPermits(outcome)
    \/ \E api_key \in BOOLEAN, content \in BOOLEAN, store \in {"ok", "raises"} :
          UploadToDatabase(api_key, content, store)

SpecPipeline == InitPipeline /\ [][NextPipeline]_vars

\* the loop of fetch_miamidade_permits runs on: nothing but its own
\* statements can hold an iteration back
SpecPipelineFair ==
    SpecPipeline /\ WF_vars(\E answer \in Answers : FetchPage(answer))

\* ------------------------------------------------------------------------
\* Properties
\* ------------------------------------------------------------------------
\* a cache entry that is a coordinate pair
PairEntry(v) ==
    /\ v.t = "list"
    /\ Len(v.xs) = 2
    /\ \A n \in 1..2 : v.xs[n].t \in {"float", "int"}

\* the coordinates of the record emitted for the k-th consumed record
CoordinatesOf(k) == log[k].permit.d["coordinates"]

\* C1: once a live lookup for a full address has come back empty and null
\* is in the cache under that address, a later geocode_address call for the
\* same full address makes no external call and returns no coordinates.
C1_NegativeRemembered ==
    \A k \in DOMAIN log :
        log[k].after_negative =>
            /\ ~log[k].called
            /\ log[k].exc = "none" /\ CoordinatesOf(k) = Null

\* C2: when the cache holds a coordinate pair under the full address of a
\* record or under its clean_address_for_cache form, normalize_permit makes
\* no external call and the record's coordinates are the cached pair.
C2_CachedPairServed ==
    \A k \in DOMAIN log :
        (log[k].entered
         /\ (PairEntry(log[k].before_full) \/ PairEntry(log[k].before_norm)))
        => /\ ~log[k].called
           /\ log[k].exc = "none"
           /\ LET hit == IF PairEntry(log[k].before_full)
                         THEN log[k].before_full ELSE log[k].before_norm
              IN  CoordinatesOf(k) = Coord(hit.xs[1], hit.xs[2])

\* a record was served from the title-cased key while the full address had
\* no pair, with an API key at hand
C2_Witness ==
    \E k \in DOMAIN log :
        /\ log[k].entered /\ google_api_key
        /\ ~PairEntry(log[k].before_full)
        /\ log[k].before_norm = List(Pair2)
        /\ ~log[k].called
        /\ CoordinatesOf(k) = Coord(Pair2[1], Pair2[2])

\* C3: with geocoding enabled and an API key, two records of a batch whose
\* full addresses have the same clean_address_for_cache form, neither
\* cached at startup, make at most one external call between them.
C3_OncePerNormalizedAddress ==
    (enable_geocoding /\ google_api_key) =>
        \A j \in DOMAIN log : \A k \in DOMAIN log :
            (/\ j < k
             /\ log[j].entered /\ log[k].entered
             /\ log[j].norm = log[k].norm
             /\ {log[j].full, log[k].full, log[j].norm}
                    \cap DOMAIN startup_cache = {})
            => ~(log[j].called /\ log[k].called)

\* the consumed records whose live lookup got an answer (a location or an
\* empty result list)
AnsweredLookups ==
    {k \in DOMAIN log :
        log[k].called /\ log[k].answer \in {"results", "empty"}}

\* C4 as stated: with geocoding enabled the cache file is written exactly
\* once per batch, after the last record, and never while records are
\* being normalized.
C4_SingleFinalWrite ==
    (enable_geocoding /\ pc \in {"running", "done"}) =>
        /\ \A n \in DOMAIN save_log : save_log[n].phase = "final"
        /\ pc = "done" => Len(save_log) = 1

\* C4 amended: with geocoding enabled, save_geocoding_cache is called once
\* after the last record, and before that once for every record whose live
\* lookup got an answer, while that record is being normalized; a record
\* without live lookup, or whose lookup raised, causes no write.
C4_WritePerAnswerAndFinal ==
    (enable_geocoding /\ pc \in {"running", "done"}) =>
        LET records == {n \in DOMAIN save_log : save_log[n].phase = "record"}
            finals == {n \in DOMAIN save_log : save_log[n].phase = "final"}
        IN  /\ {save_log[n].at : n \in records} = AnsweredLookups
            /\ Cardinality(records) = Cardinality(AnsweredLookups)
            /\ \A m \in records : \A n \in records :
                   m < n => save_log[m].at < save_log[n].at
            /\ finals = IF pc = "done" THEN {Len(save_log)} ELSE {}
            /\ \A n \in finals : save_log[n].at = Len(raw_permits)

\* a finished batch of two records: the first wrote the file for its
\* answered lookup, the second raised in its lookup and wrote nothing, and
\* the final write followed
C4_Witness ==
    /\ pc = "done" /\ enable_geocoding
    /\ Len(log) = 2
    /\ AnsweredLookups = {1}
    /\ log[2].called /\ log[2].answer = "raise"
    /\ Len(save_log) = 2
    /\ save_log[1].at = 1 /\ save_log[1].phase = "record"
    /\ save_log[2].at = 2 /\ save_log[2].phase = "final"

\* the consumed records whose normalize_permit raised, and the others in
\* input order
Failing == {k \in DOMAIN log : log[k].exc # "none"}
Surviving == SelectSeq([k \in 1..Len(log) |-> k], LAMBDA k : k \notin Failing)

\* the permit id a raw record carries
SourceIdOf(raw) ==
    IF "FOLIO" \in DOMAIN raw.d THEN raw.d["FOLIO"] ELSE raw.d["Record Number"]

\* C5: process_permits never propagates a per-record exception; after k
\* raising records the list holds the normalizations of the other records
\* in input order, nothing standing in for a failed record, and the whole
\* batch is consumed.
C5_FailedRecordsSkipped ==
    /\ pc # "failed"
    /\ pc \in {"running", "done"} =>
        /\ Len(log) = i
        /\ pc = "done" => i = Len(raw_permits)
        /\ \A k \in DOMAIN log :
               MappingError(raw_permits[k]) # "none" => k \in Failing
        /\ Len(normalized_permits) = i - Cardinality(Failing)
        /\ \A n \in DOMAIN normalized_permits :
               /\ normalized_permits[n] = log[Surviving[n]].permit
               /\ normalized_permits[n].t = "dict"
               /\ normalized_permits[n].d["permit_id"]
                      = SourceIdOf(raw_permits[Surviving[n]])

\* a finished batch whose first record raised and whose second record is
\* the only one in the list
C5_Witness ==
    /\ pc = "done" /\ Len(raw_permits) = 2
    /\ raw_permits[1] = Raw6 /\ raw_permits[2] = Raw1
    /\ Failing = {1}
    /\ Len(normalized_permits) = 1
    /\ normalized_permits[1].d["permit_id"] = Str(<<"F","1">>)

\* C6: when the external call fails (connection error, timeout, error
\* status, malformed body), normalize_permit still returns the record, with
\* coordinates absent, and the batch goes on with the following records.
C6_ServiceFailureTolerated ==
    /\ pc # "failed"
    /\ pc = "done" => Len(log) = Len(raw_permits)
    /\ \A k \in DOMAIN log :
          (log[k].called /\ log[k].answer = "raise") =>
              /\ log[k].exc = "none"
              /\ log[k].permit.t = "dict"
              /\ CoordinatesOf(k) = Null
              /\ \E n \in DOMAIN normalized_permits :
                     normalized_permits[n] = log[k].permit

\* the first request raised, its record was emitted
\* without coordinates, and the second record was geocoded
C6_Witness ==
    /\ pc = "done" /\ Len(log) = 2
    /\ log[1].called /\ log[1].answer = "raise"
    /\ Len(normalized_permits) = 2
    /\ normalized_permits[1].d["coordinates"] = Null
    /\ log[2].called /\ log[2].answer = "results"
    /\ normalized_permits[2].d["coordinates"] = Coord(Pair1[1], Pair1[2])

\* C7: after a geocode_address call in which the service errored, the cache
\* holds the negative marker under that full address.
C7_FailureCachedAsNegative ==
    (Len(log) > 0 /\ log[Len(log)].called
     /\ log[Len(log)].answer = "raise")
    => Entry(geocode_cache, log[Len(log)].full) = Null

\* C8: permit_id, source_county, permit_type, description, address, city and
\* zipcode are never null in an emitted record.
C8_RequiredFieldsNonNull ==
    \A n \in DOMAIN normalized_permits :
        \A f \in {"permit_id", "source_county", "permit_type", "description",
                   "address", "city", "zipcode"} :
            normalized_permits[n].d[f] # Null

\* the source value of canonical field f in a raw record: null when the
\* county has no table, the table has no source field for f, or the source
\* field is missing or null
SourceValue(raw, f) ==
    LET county == Get(raw, "source_county", Str(Unknown))
    IN  IF county \in DOMAIN field_mappings
        THEN Get(raw, field_mappings[county][f], Null)
        ELSE Null

\* the raw record has nothing for canonical field f (a Miami-Dade
\* description can also come from DESC2..DESC10)
Lacks(raw, f) ==
    /\ SourceValue(raw, f) = Null
    /\ f = "description" =>
          ~(/\ Get(raw, "source_county", Null) = Str(MiamiDade)
            /\ \E n \in DOMAIN DescFields :
                  Truthy(Get(raw, DescFields[n], Null)))

\* C9: normalize_permit does not raise on a raw mapping with any subset of
\* its source fields missing or null (the county included); a missing
\* permit_id or permit_type becomes "UNKNOWN", a missing description,
\* address, city or zipcode the empty string, and applicant_name,
\* contractor_name, permit_value, expiration_date, status (and coordinates,
\* when the address is missing) are null.
C9_MissingFieldsDefaulted ==
    \A k \in DOMAIN log :
        raw_permits[k].t = "dict" =>
            LET raw == raw_permits[k].d
                out == log[k].permit.d
            IN  /\ log[k].exc = "none"
                /\ log[k].permit.t = "dict"
                /\ \A f \in {"permit_id", "permit_type"} :
                       Lacks(raw, f) => out[f] = Str(UNKNOWN)
                /\ \A f \in {"description", "address", "city", "zipcode"} :
                       Lacks(raw, f) => out[f] = Str(<<>>)
                /\ \A f \in {"applicant_name", "contractor_name",
                              "permit_value", "expiration_date", "status"} :
                       Lacks(raw, f) => out[f] = Null
                /\ Lacks(raw, "address") => out["coordinates"] = Null

\* a Miami-Dade record with a null FOLIO, no ZIP and nothing for any other
\* varied field was normalized with geocoding enabled
C9_Witness ==
    /\ Len(log) = 1 /\ enable_geocoding /\ raw_permits[1].t = "dict"
    /\ LET raw == raw_permits[1].d
       IN  /\ Get(raw, "source_county", Null) = Str(MiamiDade)
           /\ "FOLIO" \in DOMAIN raw /\ raw["FOLIO"] = Null
           /\ "ZIP" \notin DOMAIN raw
           /\ \A f \in VariedFields : Lacks(raw, f)
    /\ log[1].exc = "none"
    /\ log[1].permit.d["permit_id"] = Str(UNKNOWN)
    /\ log[1].permit.d["zipcode"] = Str(<<>>)

\* a str is an optional minus sign, then digits with at most one point and
\* at least one digit
IsPlainDecimal(s) ==
    LET body == IF Len(s) > 0 /\ s[1] = "-" THEN Tail(s) ELSE s
    IN  /\ \A n \in DOMAIN body : body[n] \in Digits \cup {"."}
        /\ Cardinality({n \in DOMAIN body : body[n] = "."}) <= 1
        /\ \E n \in DOMAIN body : body[n] \in Digits

\* the integer the digits of a plain decimal spell, sign included, and the
\* number of digits behind its point
SignedDigits(s) ==
    LET d == DigitsVal(SelectSeq(s, LAMBDA c : c \in Digits))
    IN  IF s[1] = "-" THEN 0 - d ELSE d
FractionDigits(s) ==
    IF \E n \in DOMAIN s : s[n] = "."
    THEN Len(s) - (CHOOSE n \in DOMAIN s : s[n] = ".")
    ELSE 0

\* the Estimated Value of the k-th record with every $ and , removed and
\* the surrounding whitespace stripped
CleanedValue(k) ==
    StripWs(SelectSeq(ToStr(raw_permits[k].d["Estimated Value"]),
                      LAMBDA c : c \notin {"$", ","}))

\* C10: a present permit value has every $ and , removed and surrounding
\* whitespace stripped and is then parsed as a number ("$12,345.00" gives
\* 12345.0); a value that does not parse ("N/A") or is empty after
\* stripping gives an absent permit_value; the conversion never raises.
C10_PermitValueConversion ==
    \A k \in DOMAIN log :
        LET s == CleanedValue(k)
            out == log[k].permit.d["permit_value"]
        IN  /\ log[k].exc = "none"
            /\ Len(s) = 0 => out = Null
            /\ IsPlainDecimal(s) =>
                   /\ out.t = "float"
                   /\ out.m * Pow10(FractionDigits(s))
                          = SignedDigits(s) * Pow10(out.e)
            /\ (/\ \A n \in DOMAIN s : s[n] \in ValueAlphabet \cup {"/"}
                /\ ~IsPlainDecimal(s)
                /\ s \notin {<<"N","A","N">>, <<"-","N","A","N">>})
               => out = Null
            /\ raw_permits[k].d["Estimated Value"] = Str(<<"$","1","2",",","3","4","5",".","0","0">>)
               => out = FloatV(12345, 0)
            /\ raw_permits[k].d["Estimated Value"] = Str(<<"N","/","A">>)
               => out = Null

\* the value "$12,345.00" was converted to 12345.0
C10_Witness ==
    /\ Len(log) = 1
    /\ raw_permits[1].d["Estimated Value"] = Str(<<"$","1","2",",","3","4","5",".","0","0">>)
    /\ log[1].exc = "none"
    /\ log[1].permit.d["permit_value"] = FloatV(12345, 0)

\* C11: in every record emitted by normalize_permit, permit_value is absent
\* or a valid number that is not negative, whatever the raw value of the
\* mapped field was.
C11_PermitValueNonNegative ==
    \A k \in DOMAIN log :
        log[k].exc = "none" =>
            LET out == log[k].permit.d["permit_value"]
            IN  \/ out = Null
                \/ out.t = "float" /\ out.m >= 0

\* the DESC values of a raw record that are present and not empty (neither
\* None nor ""), in index order, as stripped text
RECURSIVE NonEmptyDescs(_, _)
NonEmptyDescs(raw, k) ==
    IF k > Len(DescFields) THEN <<>>
    ELSE IF /\ DescFields[k] \in DOMAIN raw
            /\ raw[DescFields[k]] \notin {Null, Str(<<>>)}
         THEN <<StripWs(ToStr(raw[DescFields[k]]))>> \o NonEmptyDescs(raw, k + 1)
         ELSE NonEmptyDescs(raw, k + 1)

\* s has text of the form p somewhere
Contains(s, p) ==
    \E n \in 0..(Len(s) - Len(p)) : SubSeq(s, n + 1, n + Len(p)) = p

\* a " | "-joined text of two or more segments has an empty segment
HasEmptySegment(s) ==
    \/ Len(s) >= 3 /\ SubSeq(s, 1, 3) = <<" ", "|", " ">>
    \/ Len(s) >= 3 /\ SubSeq(s, Len(s) - 2, Len(s)) = <<" ", "|", " ">>
    \/ Contains(s, <<" ", "|", " ", " ", "|", " ">>)

\* C12: the description of a Miami-Dade record is the " | "-join of the
\* non-empty values among DESC1..DESC10 in index order (DESC1 "Roof repair",
\* DESC3 "Reroof", DESC2 absent gives "Roof repair | Reroof"); absent and
\* empty fields contribute no segment, and no segment of the result is empty.
C12_DescriptionJoin ==
    \A k \in DOMAIN log :
        (log[k].exc = "none" /\ raw_permits[k].d["source_county"] = Str(MiamiDade))
        => LET description == log[k].permit.d["description"]
           IN  /\ description = Str(Join(NonEmptyDescs(raw_permits[k].d, 1)))
               /\ ~HasEmptySegment(description.s)

\* C13: address cleanup is idempotent in both output modes: a call of
\* clean_address, or of clean_address_for_cache, with the result of an
\* earlier call of the same method returns its argument unchanged.
C13_CleanupIdempotent ==
    \A j \in DOMAIN calls : \A k \in DOMAIN calls :
        (j < k /\ calls[k].fn = calls[j].fn /\ calls[k].arg = calls[j].result)
        => calls[k].result = calls[j].result

\* two addresses differ only in letter case and in whitespace runs
SameUpToCaseAndSpace(x, y) ==
    Lower(CollapseWs(StripWs(x))) = Lower(CollapseWs(StripWs(y)))

\* two addresses differ only in letter case, in whitespace runs, and in
\* words that are spelled out in one and abbreviated in the other
SameUpToAbbreviation(x, y) ==
    Lower(Abbreviate(CollapseWs(StripWs(x))))
        = Lower(Abbreviate(CollapseWs(StripWs(y))))

\* C14 as stated: two addresses that differ only in letter case, whitespace
\* runs or a spelled-out versus abbreviated directional or street type get
\* the same cache key from clean_address_for_cache.
C14_SameCacheKey ==
    \A j \in DOMAIN calls : \A k \in DOMAIN calls :
        (/\ calls[j].fn = "clean_address_for_cache"
         /\ calls[k].fn = "clean_address_for_cache"
         /\ SameUpToAbbreviation(calls[j].arg, calls[k].arg))
        => calls[j].result = calls[k].result

\* C14 amended: two addresses that differ only in letter case or whitespace
\* runs get the same cache key from clean_address_for_cache.
C14_CaseAndWhitespaceUnified ==
    \A j \in DOMAIN calls : \A k \in DOMAIN calls :
        (/\ calls[j].fn = "clean_address_for_cache"
         /\ calls[k].fn = "clean_address_for_cache"
         /\ SameUpToCaseAndSpace(calls[j].arg, calls[k].arg))
        => calls[j].result = calls[k].result

\* "1  Street" and "1 STREET" (other case, other whitespace) got the same
\* key "1 Street"
C14_Witness ==
    /\ Len(calls) = 2
    /\ calls[1].fn = "clean_address_for_cache"
    /\ calls[2].fn = "clean_address_for_cache"
    /\ calls[1].arg = <<"1"," "," ","S","t","r","e","e","t">>
    /\ calls[2].arg = Upper(calls[1].arg)
    /\ calls[1].result = <<"1"," ","S","t","r","e","e","t">>
    /\ calls[2].result = <<"1"," ","S","t","r","e","e","t">>

\* C15: the issue_date of every emitted record is the processing date; a
\* source issue date (ISSUDATE, Date) in the raw record has no influence.
C15_IssueDateIsProcessingDate ==
    \A k \in DOMAIN log :
        log[k].exc = "none"
        => log[k].permit.d["issue_date"] = Str(ProcessingDate)

\* a Miami-Dade record with ISSUDATE "1/2" was emitted with the processing
\* date
C15_Witness ==
    /\ Len(log) = 1
    /\ raw_permits[1].t = "dict"
    /\ "ISSUDATE" \in DOMAIN raw_permits[1].d
    /\ raw_permits[1].d["ISSUDATE"] = Str(<<"1","/","2">>)
    /\ raw_permits[1].d["source_county"] = Str(MiamiDade)
    /\ log[1].exc = "none"
    /\ log[1].permit.d["issue_date"] = Str(ProcessingDate)

\* C16: with geocoding enabled and no API key the run is cache-only: the
\* service is never called, a record whose address has a cached pair gets
\* that pair, any other record gets absent coordinates, the in-memory cache
\* stays as loaded, and the batch does not fail.
C16_CacheOnlyWithoutKey ==
    (pc # "idle" /\ enable_geocoding /\ ~google_api_key)
    => /\ pc # "failed"
       /\ geocode_cache = startup_cache
       /\ \A k \in DOMAIN log :
             /\ ~log[k].called
             /\ log[k].answer = "none"
             /\ log[k].entered =>
                   /\ log[k].exc = "none"
                   /\ CoordinatesOf(k) =
                         IF PairEntry(Entry(startup_cache, log[k].full))
                         THEN Coord(startup_cache[log[k].full].xs[1],
                                    startup_cache[log[k].full].xs[2])
                         ELSE IF PairEntry(Entry(startup_cache, log[k].norm))
                         THEN Coord(startup_cache[log[k].norm].xs[1],
                                    startup_cache[log[k].norm].xs[2])
                         ELSE Null

\* a run without key has ended: its first record got the pair cached for
\* its address, its second record, whose address is not cached, got none
C16_Witness ==
    /\ pc = "done" /\ enable_geocoding /\ ~google_api_key
    /\ Len(log) = 2 /\ Len(normalized_permits) = 2
    /\ log[1].entered /\ log[2].entered
    /\ PairEntry(Entry(startup_cache, log[1].full))
    /\ CoordinatesOf(1) = Coord(Pair1[1], Pair1[2])
    /\ Entry(startup_cache, log[2].full) = Absent
    /\ Entry(startup_cache, log[2].norm) = Absent
    /\ CoordinatesOf(2) = Null

\* C17: a cache file that is missing, unreadable or corrupt at startup does
\* not stop the construction of the processor: the run starts, and its
\* in-memory cache is the empty mapping.
C17_LoadFailureNonFatal ==
    [][(run' = run + 1 /\ cache_file.t \in {"missing", "unreadable", "corrupt"})
       => (pc' = "running" /\ geocode_cache' = EmptyDict)]_vars

\* a run has started on a corrupt cache file with an empty cache
C17_Witness ==
    /\ pc = "running" /\ i = 0
    /\ cache_file = FileCorrupt
    /\ geocode_cache = EmptyDict

\* the flushes whose file write failed
FailedFlushes == {n \in DOMAIN save_log : save_log[n].io # "ok"}

\* C18: a failed write of the cache file, in a flush during the batch or in
\* the final one, raises nothing: the entry just written stays in the
\* in-memory cache, the lookup that triggered the flush returns its result,
\* and the run ends with all normalized records.
C18_SaveFailureTolerated ==
    /\ FailedFlushes # {} => pc # "failed"
    /\ \A n \in FailedFlushes :
          LET k == save_log[n].at
          IN  IF save_log[n].phase = "record"
              THEN /\ log[k].exc = "none"
                   /\ log[k].answer \in {"results", "empty"}
                   /\ log[k].answer = "results" =>
                         /\ log[k].after_full = List(Pair1)
                         /\ CoordinatesOf(k) = Coord(Pair1[1], Pair1[2])
                   /\ log[k].answer = "empty" =>
                         /\ log[k].after_full = Null
                         /\ CoordinatesOf(k) = Null
              ELSE /\ pc = "done"
                   /\ Len(log) = Len(raw_permits)
                   /\ Len(normalized_permits) = Len(Surviving)
                   /\ \A j \in DOMAIN log :
                         log[j].save => Entry(geocode_cache, log[j].full) # Absent
    /\ \A k \in DOMAIN log :
          (log[k].save /\ pc = "done") => k \in {save_log[n].at : n \in DOMAIN save_log}

\* a finished batch of two records: the flush after the first record's
\* answered lookup failed, the record has its coordinates, both records were
\* returned
C18_Witness ==
    /\ pc = "done"
    /\ Len(normalized_permits) = 2
    /\ Len(save_log) = 2
    /\ save_log[1].phase = "record" /\ save_log[1].at = 1
    /\ save_log[1].io = "open_fails"
    /\ log[1].answer = "results"
    /\ CoordinatesOf(1) = Coord(Pair1[1], Pair1[2])
    /\ normalized_permits[1] = log[1].permit

C20_CacheAppendOnly ==
    [][pc = "running" =>
          \A key \in DOMAIN geocode_cache :
              /\ key \in DOMAIN geocode_cache'
              /\ geocode_cache'[key] # geocode_cache[key] =>
                    /\ Len(log') = Len(log) + 1
                    /\ log'[Len(log')].answer = "results"
                    /\ log'[Len(log')].full = key
              /\ PairEntry(geocode_cache[key]) =>
                    geocode_cache'[key] = geocode_cache[key]]_vars

\* the first record's lookup came back empty and left a null entry; the
\* second record's lookup for the same address got a location, which
\* replaced the null; the entry is still there
C20_Witness ==
    /\ pc = "running" /\ Len(log) = 2
    /\ log[1].answer = "empty" /\ log[2].answer = "results"
    /\ log[1].full = log[2].full
    /\ log[2].before_full = Null
    /\ log[2].after_full = List(Pair1)
    /\ Entry(geocode_cache, log[2].full) = List(Pair1)
    /\ DOMAIN startup_cache \subseteq DOMAIN geocode_cache

\* C21: every record fetch_miamidade_permits has collected carries the tag
\* 'miami-dade', every record fetch_hillsborough_permits returned carries
\* 'hillsborough', whatever the source held under source_county; both tags
\* are keys of field_mappings, so no record handed to the processor maps
\* through the empty mapping.
C21_FetchedRecordsTagged ==
    /\ \A k \in DOMAIN fetcher.all_records :
          fetcher.all_records[k].source_county = MiamiDadeTag
    /\ \A k \in DOMAIN pipeline.hills :
          pipeline.hills[k].source_county = HillsboroughTag
    /\ \A k \in DOMAIN pipeline.all_permits :
          /\ pipeline.all_permits[k].source_county \in DOMAIN field_mappings
          /\ MappingOf(pipeline.all_permits[k].source_county) # EmptyDict

\* both fetchers have returned records; the data file of the second had a
\* source_county column of its own
C21_Witness ==
    /\ pipeline.pc = "process"
    /\ pipeline.data_file = CsvTable(2500, Str(OtherCounty))
    /\ Len(pipeline.miami) > 0 /\ Len(pipeline.hills) > 0
    /\ pipeline.all_permits[1].source_county = MiamiDadeTag
    /\ pipeline.all_permits[Len(pipeline.all_permits)].source_county
          = HillsboroughTag

\* C22: with a positive max_records, fetch_miamidade_permits returns at most
\* max_records records, and so does fetch_hillsborough_permits.
C22_AtMostMaxRecords ==
    /\ (fetcher.pc = "returned" /\ Truthy(fetcher.max_records))
       => RecordCount(fetcher.all_records) <= fetcher.max_records.n
    /\ (pipeline.pc \in {"process", "upload", "returned"}
        /\ Truthy(pipeline.max_records))
       => RecordCount(pipeline.hills) <= pipeline.max_records.n

\* a number as json.load gives it
IsNumber(v) == v.t \in {"float", "int"}

\* C23: the coordinates of every emitted record are absent or a pair whose
\* lat and lng are both numbers, whatever the cache file held at startup.
C23_CoordinatesAreNumbers ==
    \A k \in DOMAIN log :
        log[k].exc = "none" =>
            \/ CoordinatesOf(k) = Null
            \/ /\ CoordinatesOf(k).t = "dict"
               /\ IsNumber(CoordinatesOf(k).d.lat)
               /\ IsNumber(CoordinatesOf(k).d.lng)

\* C24: a flush of one instance leaves in the file exactly that instance's
\* own in-memory mapping, so that whatever another instance has put and
\* flushed in the meantime, and this instance has not loaded, is gone from
\* the file.
C24_FlushRewritesFromOwnMapping ==
    [][\A p \in DOMAIN instances :
          instances'[p].flushes = instances[p].flushes + 1
          => /\ cache_file' = JsonFile(JsonDump(instances'[p].geocode_cache))
             /\ \A q \in DOMAIN instances :
                   \A key \in instances[q].put :
                       key \notin DOMAIN instances'[p].geocode_cache
                       => key \notin DOMAIN cache_file'.obj]_vars

\* an entry that one instance put and flushed is absent from the file after
\* the other instance's flush
C24_Witness ==
    \E p \in DOMAIN instances, q \in DOMAIN instances :
        /\ p # q
        /\ instances[q].last
        /\ cache_file.t = "json"
        /\ \E key \in instances[p].put :
              /\ key \in DOMAIN instances[p].geocode_cache
              /\ key \notin DOMAIN cache_file.obj

\* C25: once a run with geocoding enabled has flushed, every key the cache
\* file held before the run is still in the file.
C25_StoredEntriesKept ==
    (pc \in {"running", "done"} /\ enable_geocoding /\ Len(save_log) > 0)
    => \A key \in DOMAIN startup_cache :
          cache_file.t = "json" /\ key \in DOMAIN cache_file.obj

\* C26: a step of process_permits consumes exactly the next record of the
\* batch, and the normalize_permit call it makes sends at most one request
\* to the geocoding service: one if the service is asked, whatever it
\* answers, none otherwise.
C26_OneRequestPerRecord ==
    [][(pc = "running" /\ log' # log)
       => /\ Len(log') = Len(log) + 1
          /\ SubSeq(log', 1, Len(log)) = log
          /\ pc' = "running" => i' = i + 1
          /\ log'[Len(log')].requests <= 1
          /\ log'[Len(log')].requests = 1 <=> log'[Len(log')].called]_vars

\* the request for the first record failed and was not repeated; the second
\* record was then processed with a request of its own
C26_Witness ==
    /\ Len(log) = 2
    /\ log[1].called /\ log[1].answer = "raise" /\ log[1].requests = 1
    /\ log[2].called /\ log[2].answer = "results" /\ log[2].requests = 1

\* the raw record has no address for the geocoder: no source value, or an
\* empty one
NoAddress(raw) ==
    raw.t = "dict" /\ ~Truthy(SourceValue(raw.d, "address"))

\* C27: a record processed with geocoding disabled, or without an address,
\* causes no request and no cache write: the in-memory cache, the cache file
\* and the list of flushes are as before the record, and the emitted record
\* has no coordinates; a run with geocoding disabled never writes the cache
\* file, its end included.
C27_NoGeocodingNoEffect ==
    [][/\ (/\ pc = "running"
           /\ Len(log') = Len(log) + 1
           /\ ~enable_geocoding \/ NoAddress(raw_permits[i + 1]))
          => /\ ~log'[Len(log')].called
             /\ log'[Len(log')].requests = 0
             /\ ~log'[Len(log')].save
             /\ geocode_cache' = geocode_cache
             /\ cache_file' = cache_file
             /\ save_log' = save_log
             /\ log'[Len(log')].exc = "none" =>
                   log'[Len(log')].permit.d["coordinates"] = Null
       /\ (pc = "running" /\ ~enable_geocoding)
          => (cache_file' = cache_file /\ save_log' = save_log)]_vars

\* a run with geocoding enabled and a key: the first record was geocoded
\* and cached, the second, which has no address, left the cache and the
\* file as they were and has no coordinates
C27_Witness ==
    /\ pc = "running" /\ enable_geocoding /\ google_api_key
    /\ Len(log) = 2
    /\ log[1].answer = "results"
    /\ NoAddress(raw_permits[2])
    /\ ~log[2].entered /\ ~log[2].called
    /\ CoordinatesOf(2) = Null
    /\ Len(save_log) = 1 /\ save_log[1].io = "ok"
    /\ cache_file = JsonFile(JsonDump(geocode_cache))
    /\ geocode_cache # startup_cache

\* C28: when the upload step ended in an error (upload_permits_to_chroma
\* raised, or returned a result with status "error"), the result of
\* run_pipeline does not have status "success".
C28_SuccessOnlyAfterUpload ==
    (/\ pipeline.pc = "returned"
     /\ \/ pipeline.upload.exc # "none"
        \/ pipeline.upload.result.status = "error")
    => pipeline.result.status # "success"

\* the records are exactly the records from..(upto - 1) of the source, each
\* once and in the source's order
InOrderOnce(records, from, upto) ==
    /\ \A k \in DOMAIN records :
          /\ records[k].lo = IF k = 1 THEN from ELSE records[k - 1].hi + 1
          /\ records[k].lo <= records[k].hi
    /\ (IF Len(records) = 0 THEN from ELSE records[Len(records)].hi + 1) = upto

\* C29: with max_records unset and every request answered with a page, the
\* list fetch_miamidade_permits returns is the service's record sequence,
\* whatever number of features the service returns per request.
C29_EveryRecordOnce ==
    (/\ fetcher.pc = "returned"
     /\ ~Truthy(fetcher.max_records)
     /\ \A n \in DOMAIN fetcher.requests : fetcher.requests[n].answer = "page")
    => InOrderOnce(fetcher.all_records, 0, fetcher.held)

\* the requests before the last were all answered with a page that held
\* features
EarlierPagesHeldFeatures ==
    \A n \in 1..(Len(fetcher.requests) - 1) :
        /\ fetcher.requests[n].answer = "page"
        /\ Len(Features(fetcher.held, fetcher.page_size,
                        fetcher.requests[n].offset)) > 0

\* C30: the loop of fetch_miamidade_permits, once entered, ends; it ends on
\* the first request that fails, on the first answer without features, or
\* at the top of an iteration that finds a positive max_records reached, and
\* the caller receives the records collected until then.
C30_FetchLoopTerminates ==
    /\ (fetcher.pc = "loop") ~> (fetcher.pc = "returned")
    /\ [](fetcher.pc = "returned"
          => /\ pipeline.miami = fetcher.all_records
             /\ fetcher.ended \in {"empty", "error", "max_records"}
             /\ fetcher.ended = "max_records" =>
                   /\ Truthy(fetcher.max_records)
                   /\ RecordCount(fetcher.all_records)
                         >= fetcher.max_records.n
                   /\ \A n \in DOMAIN fetcher.requests :
                         fetcher.requests[n].answer = "page"
             /\ fetcher.ended = "error" =>
                   /\ fetcher.requests[Len(fetcher.requests)].answer = "raise"
                   /\ EarlierPagesHeldFeatures
             /\ fetcher.ended = "empty" =>
                   /\ \/ fetcher.requests[Len(fetcher.requests)].answer
                            = "no_features"
                      \/ Len(Features(fetcher.held, fetcher.page_size,
                                      fetcher.requests[
                                          Len(fetcher.requests)].offset)) = 0
                   /\ EarlierPagesHeldFeatures)

\* the loop has fetched two pages and ended on the empty third one
C30_Witness ==
    /\ fetcher.pc = "returned" /\ fetcher.ended = "empty"
    /\ Len(fetcher.requests) = 3
    /\ fetcher.requests[3].answer = "page"
    /\ fetcher.requests[3].offset = 2 * batch_size
    /\ RecordCount(fetcher.all_records) = 2 * batch_size

====
